---- MODULE Spec2Model ----
(***************************************************************************)
(* A model of the profile graph engine of gprof2dot.py: the entity model   *)
(* (Object, Call, Function, Cycle, Profile), Profile.validate, Tarjan's    *)
(* cycle detection, the call-ratio calculator, the integration engine and  *)
(* the pruners.  Event values are exact rationals <<numerator,denominator>>*)
(* (the code computes in floats; the model is its exact-arithmetic         *)
(* reading).  A Python dict is modelled with its key order: the Function   *)
(* dict is a mapping `functions` plus the key sequence `fkeys`, a          *)
(* Function's calls are a sequence of Call records keyed by callee_id.     *)
(* Cycle objects live in the heap `cycleObjs`, indexed by object identity. *)
(***************************************************************************)
EXTENDS Integers, Sequences, FiniteSets, TLC

VARIABLES
    functions,   \* Profile.functions: id -> Function record
    fkeys,       \* key order of the Profile.functions dict
    cycles,      \* Profile.cycles: sequence of Cycle identities
    cycleObjs,   \* every Cycle object built so far: identity -> Cycle record
    events,      \* Profile.events
    warned,      \* the <<caller, callee>> of each "call to undefined function" warning
    stage,       \* the driver's position in the pipeline
    status,      \* "ok", or the exception that ended the last operation
    args         \* the arguments of Profile.prune when it ran last, else NoArgs

vars == <<functions, fkeys, cycles, cycleObjs, events, warned, stage, status, args>>

(***************************************************************************)
(* Bounds of the model.                                                    *)
(***************************************************************************)
NumFuncs == 3
MaxCalls == 3
MaxWeight == 2
MaxTime == 2
MaxCycleObjs == 2

\* Python's None: for an event value, ratio or weight, and for Function.cycle.
None == <<>>
NoCycle == 0

(***************************************************************************)
(* Exact rational arithmetic.                                              *)
(***************************************************************************)
Abs(x) == IF x < 0 THEN -x ELSE x

RECURSIVE Gcd(_, _)
Gcd(a, b) == IF b = 0 THEN a ELSE Gcd(b, a % b)

Rat(n, d) ==
    LET g == Gcd(Abs(n), Abs(d))
        s == IF d < 0 THEN -1 ELSE 1
    IN  <<(s * n) \div g, (s * d) \div g>>

Int2Rat(n) == <<n, 1>>
RAdd(x, y) == Rat(x[1] * y[2] + y[1] * x[2], x[2] * y[2])
RSub(x, y) == Rat(x[1] * y[2] - y[1] * x[2], x[2] * y[2])
RMul(x, y) == Rat(x[1] * y[1], x[2] * y[2])
RLt(x, y) == x[1] * y[2] < y[1] * x[2]
RLe(x, y) == x[1] * y[2] <= y[1] * x[2]
RAbs(x) == <<Abs(x[1]), x[2]>>
RMin(x, y) == IF RLe(y, x) THEN y ELSE x
RZero == <<0, 1>>
ROne == <<1, 1>>

\* x <= y / k for an integer k > 0, without forming k * numerator.
RLeDiv(x, y, k) == x[1] * y[2] <= (y[1] * x[2]) \div k

(***************************************************************************)
(* Event kinds.                                                            *)
(***************************************************************************)
CALLS == "CALLS"
SAMPLES == "SAMPLES"
SAMPLES2 == "SAMPLES2"
TIME == "TIME"
TIME_RATIO == "TIME_RATIO"
TOTAL_TIME == "TOTAL_TIME"
TOTAL_TIME_RATIO == "TOTAL_TIME_RATIO"

\* Event.null()
null(event) == RZero

\* Event.aggregate: add, or fail for the total kinds.
CanAggregate(event) == event \notin {TOTAL_TIME, TOTAL_TIME_RATIO}
aggregate(event, val1, val2) == RAdd(val1, val2)

(***************************************************************************)
(* Object: a sparse map from event kind to value.                          *)
(***************************************************************************)
NoEvents == [e \in {} |-> RZero]

\* Object.__contains__
Has(obj, event) == event \in DOMAIN obj.events

\* Object.__setitem__ on an events map
SetEvent(evs, event, value) ==
    IF value = None
    THEN [e \in DOMAIN evs \ {event} |-> evs[e]]
    ELSE [e \in DOMAIN evs \cup {event} |-> IF e = event THEN value ELSE evs[e]]

\* Call.__init__
Call(callee_id) ==
    [callee_id |-> callee_id, events |-> NoEvents, ratio |-> None, weight |-> None]

\* Function.__init__
Function(id) ==
    [id |-> id, events |-> NoEvents, calls |-> <<>>, weight |-> None, cycle |-> NoCycle]

\* Cycle.__init__
Cycle == [events |-> NoEvents, functions |-> {}]

\* The keys of a Function's calls dict, in dict order.
CallKeys(f) == [i \in 1..Len(f.calls) |-> f.calls[i].callee_id]
CalleeIds(f) == {f.calls[i].callee_id : i \in 1..Len(f.calls)}

\* The position of callee_id in the calls dict, 0 when absent.
CallIndex(f, callee_id) ==
    IF callee_id \in CalleeIds(f)
    THEN CHOOSE i \in 1..Len(f.calls) : f.calls[i].callee_id = callee_id
    ELSE 0

RECURSIVE SeqFilter(_, _)
SeqFilter(s, keep) ==
    IF s = <<>> THEN <<>>
    ELSE IF Head(s) \in keep
         THEN <<Head(s)>> \o SeqFilter(Tail(s), keep)
         ELSE SeqFilter(Tail(s), keep)

RECURSIVE CallsFilter(_, _)
CallsFilter(cs, keep) ==
    IF cs = <<>> THEN <<>>
    ELSE IF Head(cs).callee_id \in keep
         THEN <<Head(cs)>> \o CallsFilter(Tail(cs), keep)
         ELSE CallsFilter(Tail(cs), keep)

\* The iteration order of a Python set of small integers: ascending.
RECURSIVE SetIter(_)
SetIter(S) ==
    IF S = {} THEN <<>>
    ELSE LET m == CHOOSE x \in S : \A y \in S : x <= y
         IN  <<m>> \o SetIter(S \ {m})

Range(s) == {s[i] : i \in 1..Len(s)}

(***************************************************************************)
(* Profile.validate                                                        *)
(***************************************************************************)
\* validate that only warns.
validate_warn_only(fs) == fs

validate(fs) ==
    [id \in DOMAIN fs |->
        [fs[id] EXCEPT !.calls = CallsFilter(fs[id].calls, DOMAIN fs)]]

\* The calls validate warns about on stderr.
validate_warnings(fs) ==
    UNION {{<<id, c>> : c \in CalleeIds(fs[id]) \ DOMAIN fs} : id \in DOMAIN fs}

(***************************************************************************)
(* Cycle.add_function.  w is the object graph: the Functions, the Cycle    *)
(* objects, and err, the exception raised so far ("ok" when none).         *)
(***************************************************************************)
RECURSIVE add_function(_, _, _)
RECURSIVE add_function_others(_, _, _, _)
add_function(w, self, function) ==
    IF w.err # "ok" THEN w
    ELSE IF function \in w.cycleObjs[self].functions
    THEN [w EXCEPT !.err = "AssertionError"]
    ELSE LET w1 == [w EXCEPT !.cycleObjs[self].functions = @ \cup {function}]
             old == w1.functions[function].cycle
             w2 == IF old # NoCycle
                   THEN add_function_others(w1, self, function,
                                            SetIter(w1.cycleObjs[old].functions))
                   ELSE w1
         IN  IF w2.err # "ok" THEN w2
             ELSE [w2 EXCEPT !.functions[function].cycle = self]

\* The loop as it would merge: the test made on `other`.
RECURSIVE add_function_others_merging(_, _, _, _)
add_function_others_merging(w, self, function, others) ==
    IF others = <<>> \/ w.err # "ok" THEN w
    ELSE LET w1 == IF Head(others) \notin w.cycleObjs[self].functions
                   THEN add_function(w, self, Head(others))
                   ELSE w
         IN  add_function_others_merging(w1, self, function, Tail(others))

\* for other in function.cycle.functions: if function not in self.functions: ...
add_function_others(w, self, function, others) ==
    IF others = <<>> \/ w.err # "ok" THEN w
    ELSE LET w1 == IF function \notin w.cycleObjs[self].functions
                   THEN add_function(w, self, Head(others))
                   ELSE w
         IN  add_function_others(w1, self, function, Tail(others))

\* Cycle(): the identity of the next Cycle object.
NewCycle(objs) == Cardinality(DOMAIN objs) + 1

(***************************************************************************)
(* Profile._tarjan.  t carries the object graph and the traversal's own    *)
(* state: order, stack, data (id -> _TarjanData).                          *)
(***************************************************************************)
TarjanData(order) == [order |-> order, lowlink |-> order, onstack |-> FALSE]

Min(a, b) == IF a < b THEN a ELSE b

\* if len(members) > 1: the component is materialized as a Cycle
IsCycle_Loose(members) == Len(members) > 2
IsCycle(members) == Len(members) > 1

RECURSIVE tarjan(_, _)
RECURSIVE tarjan_calls(_, _, _)
RECURSIVE tarjan_members(_, _, _, _)

\* for member in members: [cycle.add_function(member);] data[member.id].onstack = False
tarjan_members(t, members, cycle, grouped) ==
    IF members = <<>> \/ t.err # "ok" THEN t
    ELSE LET m == Head(members)
             t1 == IF grouped THEN add_function(t, cycle, m) ELSE t
             t2 == IF t1.err # "ok" THEN t1
                   ELSE [t1 EXCEPT !.data[m].onstack = FALSE]
         IN  tarjan_members(t2, Tail(members), cycle, grouped)

\* for call in function.calls.values(): ...
tarjan_calls(t, function, i) ==
    IF t.err # "ok" \/ i > Len(t.functions[function].calls) THEN t
    ELSE LET callee_id == t.functions[function].calls[i].callee_id
             t1 == IF callee_id \in DOMAIN t.data
                   THEN IF t.data[callee_id].onstack
                        THEN [t EXCEPT !.data[function].lowlink =
                                          Min(@, t.data[callee_id].order)]
                        ELSE t
                   ELSE IF callee_id \notin DOMAIN t.functions
                        THEN [t EXCEPT !.err = "KeyError"]
                        ELSE LET t2 == tarjan(t, callee_id)
                             IN  IF t2.err # "ok" THEN t2
                                 ELSE [t2 EXCEPT !.data[function].lowlink =
                                                    Min(@, t2.data[callee_id].lowlink)]
         IN  tarjan_calls(t1, function, i + 1)

tarjan(t, function) ==
    IF t.err # "ok" \/ function \in DOMAIN t.data THEN t
    ELSE LET pos == Len(t.stack)
             t1 == [t EXCEPT
                      !.data = [id \in DOMAIN t.data \cup {function} |->
                                  IF id = function
                                  THEN [TarjanData(t.order) EXCEPT !.onstack = TRUE]
                                  ELSE t.data[id]],
                      !.order = t.order + 1,
                      !.stack = Append(t.stack, function)]
             t2 == tarjan_calls(t1, function, 1)
         IN  IF t2.err # "ok" THEN t2
             ELSE IF t2.data[function].lowlink = t2.data[function].order
             THEN \* Strongly connected component found
                  LET members == SubSeq(t2.stack, pos + 1, Len(t2.stack))
                      t3 == [t2 EXCEPT !.stack = SubSeq(t2.stack, 1, pos)]
                  IN  IF IsCycle(members)
                      THEN LET cycle == NewCycle(t3.cycleObjs)
                               t4 == [t3 EXCEPT !.cycleObjs =
                                        [c \in DOMAIN t3.cycleObjs \cup {cycle} |->
                                           IF c = cycle THEN Cycle ELSE t3.cycleObjs[c]]]
                           IN  tarjan_members(t4, members, cycle, TRUE)
                      ELSE tarjan_members(t3, members, 0, FALSE)
             ELSE t2

(***************************************************************************)
(* Profile.find_cycles                                                     *)
(***************************************************************************)
RECURSIVE tarjan_all(_, _)
tarjan_all(t, keys) ==
    IF keys = <<>> \/ t.err # "ok" THEN t
    ELSE tarjan_all(tarjan(t, Head(keys)), Tail(keys))

RECURSIVE collect_cycles(_, _, _)
collect_cycles(fs, keys, acc) ==
    IF keys = <<>> THEN acc
    ELSE LET c == fs[Head(keys)].cycle
         IN  collect_cycles(fs, Tail(keys),
                            IF c # NoCycle /\ c \notin Range(acc)
                            THEN Append(acc, c) ELSE acc)

\* The result: the object graph after the run, with cycles = Profile.cycles.
find_cycles(fs, keys, objs, cys) ==
    LET t0 == [functions |-> fs, cycleObjs |-> objs, err |-> "ok",
               order |-> 0, stack |-> <<>>, data |-> [id \in {} |-> TarjanData(0)]]
        t == tarjan_all(t0, keys)
    IN  [functions |-> t.functions, cycleObjs |-> t.cycleObjs, err |-> t.err,
         cycles |-> IF t.err = "ok"
                    THEN collect_cycles(t.functions, keys, <<>>)
                    ELSE cys]

(***************************************************************************)
(* ratio(numerator, denominator)                                           *)
(***************************************************************************)
RDiv(x, y) == Rat(x[1] * y[2], x[2] * y[1])

\* ratio without the clamp to [0, 1].
ratio_unclamped(numerator, denominator) ==
    IF denominator[1] = 0 THEN ROne ELSE RDiv(numerator, denominator)

ratio(numerator, denominator) ==
    IF denominator[1] = 0
    THEN ROne    \* ZeroDivisionError: 0/0 is undefined, but 1.0 yields more useful results
    ELSE LET r == RDiv(numerator, denominator)
         IN  IF RLt(r, RZero) THEN RZero
             ELSE IF RLt(ROne, r) THEN ROne
             ELSE r

(***************************************************************************)
(* Profile.call_ratios                                                     *)
(***************************************************************************)
\* Every call of the profile as <<caller id, position>>, in iteration order.
RECURSIVE AllCalls(_, _)
AllCalls(fs, keys) ==
    IF keys = <<>> THEN <<>>
    ELSE [i \in 1..Len(fs[Head(keys)].calls) |-> <<Head(keys), i>>]
            \o AllCalls(fs, Tail(keys))

CallAt(fs, c) == fs[c[1]].calls[c[2]]
\* call.callee_id != function.id taken as true of every call
IsSelfCall_never(fs, c) == FALSE
IsSelfCall(fs, c) == CallAt(fs, c).callee_id = c[1]

\* callee.cycle is not None and callee.cycle is not function.cycle
EntersCycle(fs, caller, callee) ==
    fs[callee].cycle # NoCycle /\ fs[callee].cycle # fs[caller].cycle

\* Pass 1 adding a Function's calls to itself to its function_totals.
RECURSIVE function_total_with_self(_, _, _, _)
function_total_with_self(fs, cs, event, callee) ==
    IF cs = <<>> THEN RZero
    ELSE LET c == Head(cs)
             call == CallAt(fs, c)
             rest == function_total_with_self(fs, Tail(cs), event, callee)
         IN  IF call.callee_id = callee /\ Has(call, event)
             THEN RAdd(call.events[event], rest)
             ELSE rest

\* Pass 1: function_totals[callee], accumulated over the calls cs.
RECURSIVE function_total(_, _, _, _)
function_total(fs, cs, event, callee) ==
    IF cs = <<>> THEN RZero
    ELSE LET c == Head(cs)
             call == CallAt(fs, c)
             rest == function_total(fs, Tail(cs), event, callee)
         IN  IF ~IsSelfCall(fs, c) /\ call.callee_id = callee /\ Has(call, event)
             THEN RAdd(call.events[event], rest)
             ELSE rest

\* Pass 1 adding to cycle_totals the calls made inside the cycle as well.
RECURSIVE cycle_total_with_internal(_, _, _, _)
cycle_total_with_internal(fs, cs, event, cycle) ==
    IF cs = <<>> THEN RZero
    ELSE LET c == Head(cs)
             call == CallAt(fs, c)
             rest == cycle_total_with_internal(fs, Tail(cs), event, cycle)
         IN  IF /\ ~IsSelfCall(fs, c) /\ Has(call, event)
                /\ fs[call.callee_id].cycle = cycle
             THEN RAdd(call.events[event], rest)
             ELSE rest

\* Pass 1: cycle_totals[cycle], accumulated over the calls cs.
RECURSIVE cycle_total(_, _, _, _)
cycle_total(fs, cs, event, cycle) ==
    IF cs = <<>> THEN RZero
    ELSE LET c == Head(cs)
             call == CallAt(fs, c)
             rest == cycle_total(fs, Tail(cs), event, cycle)
         IN  IF /\ ~IsSelfCall(fs, c) /\ Has(call, event)
                /\ fs[call.callee_id].cycle = cycle
                /\ EntersCycle(fs, c[1], call.callee_id)
             THEN RAdd(call.events[event], rest)
             ELSE rest

\* Pass 1 raises KeyError on a call to an unregistered Function, or into a
\* Cycle that is not in Profile.cycles.
call_ratios_pass1_ok(fs, cs, cys, event) ==
    \A i \in 1..Len(cs) :
        LET c == cs[i]
            call == CallAt(fs, c)
        IN  IsSelfCall(fs, c) \/
               /\ call.callee_id \in DOMAIN fs
               /\ (Has(call, event) /\ EntersCycle(fs, c[1], call.callee_id))
                     => fs[call.callee_id].cycle \in Range(cys)

\* Pass 2 scaling every call by function_totals[callee].
call_total_function_only(fs, all, event, caller, callee) ==
    function_total(fs, all, event, callee)

\* The total a call's weight is scaled by in pass 2.
call_total(fs, all, event, caller, callee) ==
    IF EntersCycle(fs, caller, callee)
    THEN cycle_total(fs, all, event, fs[callee].cycle)
    ELSE function_total(fs, all, event, callee)

\* The ratio pass 2 gives a call that has no weight data.
NoDataRatio == RZero

\* Pass 2, over the calls cs; w = [functions, err].
RECURSIVE call_ratios_pass2(_, _, _, _)
call_ratios_pass2(w, cs, all, event) ==
    IF cs = <<>> \/ w.err # "ok" THEN w
    ELSE LET c == Head(cs)
             call == CallAt(w.functions, c)
             w1 == IF call.ratio # None
                   THEN [w EXCEPT !.err = "AssertionError"]
                   ELSE IF IsSelfCall(w.functions, c) THEN w
                   ELSE [w EXCEPT !.functions[c[1]].calls[c[2]].ratio =
                           IF Has(call, event)
                           THEN ratio(call.events[event],
                                      call_total(w.functions, all, event,
                                                 c[1], call.callee_id))
                           ELSE NoDataRatio]
         IN  call_ratios_pass2(w1, Tail(cs), all, event)

call_ratios(fs, keys, cys, event) ==
    LET all == AllCalls(fs, keys)
    IN  IF ~call_ratios_pass1_ok(fs, all, cys, event)
        THEN [functions |-> fs, err |-> "KeyError"]
        ELSE call_ratios_pass2([functions |-> fs, err |-> "ok"], all, all, event)

(***************************************************************************)
(* Profile._rank_cycle_function: Dijkstra's shortest paths inside a cycle. *)
(* Q holds one item <<rank, parent, member>> per queued member; heappop    *)
(* takes the least item (ids stand for the objects' addresses in the       *)
(* tie-break of equal ranks).                                              *)
(***************************************************************************)
TupleLess(a, b) ==
    \/ a[1] < b[1]
    \/ a[1] = b[1] /\ a[2] < b[2]
    \/ a[1] = b[1] /\ a[2] = b[2] /\ a[3] < b[3]

HeapMin(Q) == CHOOSE a \in Q : \A b \in Q \ {a} : TupleLess(a, b)

\* The non-self calls of `function` to members of `cycle`, in dict order.
RECURSIVE CycleCallees(_, _, _, _)
CycleCallees(fs, function, cycle, i) ==
    IF i > Len(fs[function].calls) THEN <<>>
    ELSE LET callee_id == fs[function].calls[i].callee_id
             rest == CycleCallees(fs, function, cycle, i + 1)
         IN  IF callee_id # function /\ fs[callee_id].cycle = cycle
             THEN <<callee_id>> \o rest
             ELSE rest

\* r = [ranks, Q, visited]: one scan of member's calls.
RECURSIVE rank_scan(_, _, _)
rank_scan(r, member, callees) ==
    IF callees = <<>> THEN r
    ELSE LET callee == Head(callees)
             member_rank == r.ranks[member]
             r1 == IF callee \in DOMAIN r.ranks
                   THEN IF r.ranks[callee] > 1 + member_rank
                        THEN [r EXCEPT
                                !.ranks[callee] = 1 + member_rank,
                                !.Q = {IF it[3] = callee
                                       THEN <<1 + member_rank, member, callee>>
                                       ELSE it : it \in r.Q}]
                        ELSE r
                   ELSE [r EXCEPT
                           !.ranks = [m \in DOMAIN r.ranks \cup {callee} |->
                                        IF m = callee THEN 1 + member_rank
                                        ELSE r.ranks[m]],
                           !.Q = @ \cup {<<1 + member_rank, member, callee>>}]
         IN  rank_scan(r1, member, Tail(callees))

RECURSIVE rank_loop(_, _, _)
rank_loop(fs, cycle, r) ==
    IF r.Q = {} THEN r.ranks
    ELSE LET item == HeapMin(r.Q)
             member == item[3]
             r1 == [r EXCEPT !.Q = @ \ {item}]
         IN  IF member \in r.visited
             THEN rank_loop(fs, cycle, r1)
             ELSE rank_loop(fs, cycle,
                     rank_scan([r1 EXCEPT !.visited = @ \cup {member}], member,
                               CycleCallees(fs, member, cycle, 1)))

\* Rank 0 for `function`, 1 for every other member.
rank_cycle_function_flat(fs, cycle, function) ==
    [m \in {n \in DOMAIN fs : fs[n].cycle = cycle} |->
        IF m = function THEN 0 ELSE 1]

\* The ranks dict filled by _rank_cycle_function(cycle, function, ranks).
rank_cycle_function(fs, cycle, function) ==
    LET first == CycleCallees(fs, function, cycle, 1)
        r0 == [ranks |-> [m \in {function} \cup Range(first) |->
                            IF m = function THEN 0 ELSE 1],
               Q |-> {<<1, function, m>> : m \in Range(first) \ {function}},
               visited |-> {function}]
    IN  rank_loop(fs, cycle, r0)

(***************************************************************************)
(* Profile._call_ratios_cycle: v = [call_ratios, visited, err].            *)
(***************************************************************************)
RECURSIVE call_ratios_cycle(_, _, _, _, _)
RECURSIVE call_ratios_cycle_calls(_, _, _, _, _, _)
call_ratios_cycle(fs, cycle, function, ranks, v) ==
    IF v.err # "ok" \/ function \in v.visited THEN v
    ELSE call_ratios_cycle_calls(fs, cycle, function, ranks,
                                 [v EXCEPT !.visited = @ \cup {function}], 1)

call_ratios_cycle_calls(fs, cycle, function, ranks, v, i) ==
    IF v.err # "ok" \/ i > Len(fs[function].calls) THEN v
    ELSE LET call == fs[function].calls[i]
             callee == call.callee_id
             v1 == IF callee # function /\ fs[callee].cycle = cycle
                   THEN IF callee \notin DOMAIN ranks \/ function \notin DOMAIN ranks
                        THEN [v EXCEPT !.err = "KeyError"]
                        ELSE IF ranks[callee] > ranks[function]
                        THEN call_ratios_cycle(fs, cycle, callee, ranks,
                                [v EXCEPT !.call_ratios =
                                   [m \in DOMAIN v.call_ratios \cup {callee} |->
                                      IF m = callee
                                      THEN RAdd(IF callee \in DOMAIN v.call_ratios
                                                THEN v.call_ratios[callee]
                                                ELSE RZero,
                                                call.ratio)
                                      ELSE v.call_ratios[m]]])
                        ELSE v
                   ELSE v
         IN  call_ratios_cycle_calls(fs, cycle, function, ranks, v1, i + 1)

(***************************************************************************)
(* The integration engine.  w = [functions, cycleObjs, events, err, ret,   *)
(* partials]: the objects, the exception raised so far, the value the last *)
(* call returned and the partials dict of the cycle entry being processed. *)
(***************************************************************************)
Raise(w, exc) == [w EXCEPT !.err = exc]
Return(w, val) == [w EXCEPT !.ret = val]

\* The tolerances of the two consistency assertions: 1e-7 and 0.001.
InvPartialTol == 10000000
InvTotalTol == 1000

RECURSIVE RMaxOf(_)
RMaxOf(s) ==
    IF Len(s) = 1 THEN s[1]
    ELSE LET m == RMaxOf(Tail(s))
         IN  IF RLt(m, Head(s)) THEN Head(s) ELSE m

RECURSIVE integrate_function(_, _, _, _)
RECURSIVE set_function_out(_, _, _)
RECURSIVE integrate_function_calls(_, _, _, _, _, _)
RECURSIVE add_call_total(_, _, _, _, _, _)
RECURSIVE integrate_call(_, _, _, _, _)
RECURSIVE set_call_out(_, _, _, _)
RECURSIVE integrate_cycle(_, _, _, _)
RECURSIVE set_cycle_out(_, _, _, _)
RECURSIVE integrate_cycle_callees(_, _, _, _, _)
RECURSIVE return_cycle_out(_, _, _)
RECURSIVE integrate_cycle_entries(_, _, _, _, _, _)
RECURSIVE integrate_cycle_entry(_, _, _, _, _, _, _)
RECURSIVE integrate_cycle_entry_ratios(_, _, _, _, _, _, _, _)
RECURSIVE check_partial(_, _, _)
RECURSIVE integrate_cycle_members(_, _, _, _, _, _)
RECURSIVE add_member_subtotal(_, _, _, _, _, _)
RECURSIVE integrate_cycle_leaving(_, _, _, _, _, _, _)
RECURSIVE add_leaving_call(_, _, _, _, _, _, _)
RECURSIVE integrate_cycle_function(_, _, _, _, _, _, _)
RECURSIVE set_partial(_, _, _)
RECURSIVE integrate_cycle_function_calls(_, _, _, _, _, _, _, _, _)
RECURSIVE next_cycle_call(_, _, _, _, _, _, _, _)
RECURSIVE integrate_cycle_function_call(_, _, _, _, _, _, _, _, _)
RECURSIVE add_callee_partial(_, _, _, _, _, _, _)
RECURSIVE add_call_partial(_, _, _, _, _, _)

\* _integrate_function without `if outevent not in function`.
integrate_function_unmemoized(w, keys, function, ev) ==
    IF w.err # "ok" THEN w
    ELSE IF w.functions[function].cycle # NoCycle
    THEN integrate_cycle(w, keys, w.functions[function].cycle, ev)
    ELSE set_function_out(
            integrate_function_calls(w, keys, function, ev, 1,
                                     w.functions[function].events[ev.in]),
            function, ev)

\* Profile._integrate_function
integrate_function(w, keys, function, ev) ==
    IF w.err # "ok" THEN w
    ELSE IF w.functions[function].cycle # NoCycle
    THEN integrate_cycle(w, keys, w.functions[function].cycle, ev)
    ELSE IF ~Has(w.functions[function], ev.out)
    THEN set_function_out(
            integrate_function_calls(w, keys, function, ev, 1,
                                     w.functions[function].events[ev.in]),
            function, ev)
    ELSE Return(w, w.functions[function].events[ev.out])

\* function[outevent] = total; return total (w.ret is total)
set_function_out(w, function, ev) ==
    IF w.err # "ok" THEN w
    ELSE [w EXCEPT !.functions[function].events = SetEvent(@, ev.out, w.ret)]

\* for call in function.calls.values(): total += self._integrate_call(...)
integrate_function_calls(w, keys, function, ev, i, total) ==
    IF w.err # "ok" THEN w
    ELSE IF i > Len(w.functions[function].calls) THEN Return(w, total)
    ELSE IF w.functions[function].calls[i].callee_id = function
    THEN integrate_function_calls(w, keys, function, ev, i + 1, total)
    ELSE add_call_total(integrate_call(w, keys, function, i, ev),
                        keys, function, ev, i, total)

\* total += the value _integrate_call returned (w.ret), then the next call
add_call_total(w, keys, function, ev, i, total) ==
    IF w.err # "ok" THEN w
    ELSE integrate_function_calls(w, keys, function, ev, i + 1,
                                  RAdd(total, w.ret))

\* Profile._integrate_call
integrate_call(w, keys, caller, i, ev) ==
    IF w.err # "ok" THEN w
    ELSE IF \/ Has(w.functions[caller].calls[i], ev.out)
            \/ w.functions[caller].calls[i].ratio = None
    THEN Raise(w, "AssertionError")
    ELSE IF w.functions[caller].calls[i].callee_id \notin DOMAIN w.functions
    THEN Raise(w, "KeyError")
    ELSE set_call_out(
            integrate_function(w, keys,
                               w.functions[caller].calls[i].callee_id, ev),
            caller, i, ev)

\* _integrate_call storing the callee's out value unscaled.
set_call_out_unscaled(w, caller, i, ev) ==
    IF w.err # "ok" THEN w
    ELSE [w EXCEPT !.functions[caller].calls[i].events =
                      SetEvent(@, ev.out, w.ret)]

\* subtotal = call.ratio*self._integrate_function(callee, ...) (w.ret);
\* call[outevent] = subtotal; return subtotal
set_call_out(w, caller, i, ev) ==
    IF w.err # "ok" THEN w
    ELSE LET subtotal == RMul(w.functions[caller].calls[i].ratio, w.ret)
         IN  Return([w EXCEPT !.functions[caller].calls[i].events =
                                 SetEvent(@, ev.out, subtotal)],
                    subtotal)

\* callees[callee]: the sum of the ratios of the calls entering `cycle` at
\* callee from Functions outside it.
RECURSIVE entry_ratio(_, _, _, _)
entry_ratio(fs, cs, cycle, callee) ==
    IF cs = <<>> THEN RZero
    ELSE LET c == Head(cs)
             rest == entry_ratio(fs, Tail(cs), cycle, callee)
         IN  IF fs[c[1]].cycle # cycle /\ CallAt(fs, c).callee_id = callee
             THEN RAdd(CallAt(fs, c).ratio, rest)
             ELSE rest

\* The keys of the callees dict, in the order they are first met.
RECURSIVE entry_members(_, _, _, _)
entry_members(fs, cs, cycle, acc) ==
    IF cs = <<>> THEN acc
    ELSE LET c == Head(cs)
             callee == CallAt(fs, c).callee_id
         IN  entry_members(fs, Tail(cs), cycle,
                IF /\ fs[c[1]].cycle # cycle /\ fs[callee].cycle = cycle
                   /\ callee \notin Range(acc)
                THEN Append(acc, callee) ELSE acc)

\* for member in cycle.functions: member[outevent] = outevent.null()
null_members(fs, cycle_functions, outevent) ==
    [id \in DOMAIN fs |->
        IF id \in cycle_functions
        THEN [fs[id] EXCEPT !.events = SetEvent(@, outevent, null(outevent))]
        ELSE fs[id]]

\* abs(partial - max_partial) <= 1e-7*max_partial
PartialIsMax(partial, max_partial) ==
    RLeDiv(RAbs(RSub(partial, max_partial)), max_partial, InvPartialTol)

\* abs(call_ratio*total - partial) <= 0.001*call_ratio*total
PartialIsShare(call_ratio, total, partial) ==
    RLeDiv(RAbs(RSub(RMul(call_ratio, total), partial)),
           RMul(call_ratio, total), InvTotalTol)

\* max_partial = max(partials.values())
max_partial(partials) ==
    RMaxOf([j \in 1..Cardinality(DOMAIN partials) |->
               partials[SetIter(DOMAIN partials)[j]]])

\* for callee, call_ratio in callees.items(): ...
integrate_cycle_entries(w, cycle, entries, all, total, ev) ==
    IF entries = <<>> \/ w.err # "ok" THEN w
    ELSE integrate_cycle_entries(
            integrate_cycle_entry(w, cycle, Head(entries),
                entry_ratio(w.functions, all, cycle, Head(entries)), total, ev,
                rank_cycle_function(w.functions, cycle, Head(entries))),
            cycle, Tail(entries), all, total, ev)

\* ranks = {}; call_ratios = {}; partials = {}; the three passes from callee
integrate_cycle_entry(w, cycle, callee, call_ratio, total, ev, ranks) ==
    integrate_cycle_entry_ratios(w, cycle, callee, call_ratio, total, ev, ranks,
        call_ratios_cycle(w.functions, cycle, callee, ranks,
            [call_ratios |-> [m \in {} |-> RZero], visited |-> {},
             err |-> "ok"]))

integrate_cycle_entry_ratios(w, cycle, callee, call_ratio, total, ev, ranks, v) ==
    IF v.err # "ok" THEN Raise(w, v.err)
    ELSE check_partial(
            integrate_cycle_function(
                [w EXCEPT !.partials = [m \in {} |-> RZero]],
                cycle, callee, call_ratio, ranks, v.call_ratios, ev),
            call_ratio, total)

\* The two assertions on partial (w.ret) that close an entry.
check_partial(w, call_ratio, total) ==
    IF w.err # "ok" THEN w
    ELSE IF /\ PartialIsMax(w.ret, max_partial(w.partials))
            /\ PartialIsShare(call_ratio, total, w.ret)
    THEN w
    ELSE Raise(w, "AssertionError")

\* Profile._integrate_cycle
integrate_cycle(w, keys, cycle, ev) ==
    IF w.err # "ok" THEN w
    ELSE IF Has(w.cycleObjs[cycle], ev.out)
    THEN Return(w, w.cycleObjs[cycle].events[ev.out])
    ELSE set_cycle_out(
            integrate_cycle_members(w, keys, cycle,
                SetIter(w.cycleObjs[cycle].functions), ev, null(ev.in)),
            keys, cycle, ev)

\* cycle[outevent] = total (w.ret); then the calls entering the cycle
set_cycle_out(w, keys, cycle, ev) ==
    IF w.err # "ok" THEN w
    ELSE integrate_cycle_callees(
            [w EXCEPT !.cycleObjs[cycle].events = SetEvent(@, ev.out, w.ret)],
            cycle, ev, w.ret, AllCalls(w.functions, keys))

\* callees = {...}; members' out reset; every entry integrated
integrate_cycle_callees(w, cycle, ev, total, all) ==
    return_cycle_out(
        integrate_cycle_entries(
            [w EXCEPT !.functions =
                 null_members(@, w.cycleObjs[cycle].functions, ev.out)],
            cycle, entry_members(w.functions, all, cycle, <<>>), all, total, ev),
        cycle, ev)

\* return cycle[outevent]
return_cycle_out(w, cycle, ev) ==
    IF w.err # "ok" THEN w
    ELSE Return(w, w.cycleObjs[cycle].events[ev.out])

\* for member in cycle.functions: subtotal = member[inevent] + leaving calls
integrate_cycle_members(w, keys, cycle, members, ev, total) ==
    IF w.err # "ok" THEN w
    ELSE IF members = <<>> THEN Return(w, total)
    ELSE add_member_subtotal(
            integrate_cycle_leaving(w, keys, cycle, Head(members), ev, 1,
                w.functions[Head(members)].events[ev.in]),
            keys, cycle, Tail(members), ev, total)

\* The member loop without `total += subtotal`.
add_member_subtotal_dropped(w, keys, cycle, members, ev, total) ==
    IF w.err # "ok" THEN w
    ELSE integrate_cycle_members(w, keys, cycle, members, ev, total)

\* total += subtotal (w.ret), then the next member
add_member_subtotal(w, keys, cycle, members, ev, total) ==
    IF w.err # "ok" THEN w
    ELSE integrate_cycle_members(w, keys, cycle, members, ev,
                                 RAdd(total, w.ret))

\* for call in member.calls.values(): if callee.cycle is not cycle: ...
integrate_cycle_leaving(w, keys, cycle, member, ev, i, subtotal) ==
    IF w.err # "ok" THEN w
    ELSE IF i > Len(w.functions[member].calls) THEN Return(w, subtotal)
    ELSE IF w.functions[member].calls[i].callee_id \notin DOMAIN w.functions
    THEN Raise(w, "KeyError")
    ELSE IF w.functions[w.functions[member].calls[i].callee_id].cycle # cycle
    THEN add_leaving_call(integrate_call(w, keys, member, i, ev),
                          keys, cycle, member, ev, i, subtotal)
    ELSE integrate_cycle_leaving(w, keys, cycle, member, ev, i + 1, subtotal)

\* subtotal += self._integrate_call(call, ...) (w.ret), then the next call
add_leaving_call(w, keys, cycle, member, ev, i, subtotal) ==
    IF w.err # "ok" THEN w
    ELSE integrate_cycle_leaving(w, keys, cycle, member, ev, i + 1,
                                 RAdd(subtotal, w.ret))

\* Profile._integrate_cycle_function
integrate_cycle_function(w, cycle, function, partial_ratio, ranks, cratios, ev) ==
    IF w.err # "ok" THEN w
    ELSE IF function \notin DOMAIN w.partials
    THEN set_partial(
            integrate_cycle_function_calls(w, cycle, function, partial_ratio,
                ranks, cratios, ev, 1,
                RMul(partial_ratio, w.functions[function].events[ev.in])),
            function, ev)
    ELSE Return(w, w.partials[function])

\* partials[function] = partial; function[outevent] += partial (w.ret)
set_partial(w, function, ev) ==
    IF w.err # "ok" THEN w
    ELSE [w EXCEPT
            !.partials = [m \in DOMAIN w.partials \cup {function} |->
                             IF m = function THEN w.ret ELSE w.partials[m]],
            !.functions[function].events =
                SetEvent(@, ev.out,
                         IF ev.out \in DOMAIN @
                         THEN RAdd(@[ev.out], w.ret) ELSE w.ret)]

\* for call in function.calls.values(): ...
integrate_cycle_function_calls(w, cycle, function, partial_ratio, ranks, cratios, ev, i, partial) ==
    IF w.err # "ok" THEN w
    ELSE IF i > Len(w.functions[function].calls) THEN Return(w, partial)
    ELSE next_cycle_call(
            integrate_cycle_function_call(w, cycle, function, partial_ratio,
                                          ranks, cratios, ev, i, partial),
            cycle, function, partial_ratio, ranks, cratios, ev, i)

\* The next call of the loop, partial being w.ret.
next_cycle_call(w, cycle, function, partial_ratio, ranks, cratios, ev, i) ==
    IF w.err # "ok" THEN w
    ELSE integrate_cycle_function_calls(w, cycle, function, partial_ratio,
                                        ranks, cratios, ev, i + 1, w.ret)

\* One turn of the loop: the world after it, with ret = partial.
integrate_cycle_function_call(w, cycle, function, partial_ratio, ranks, cratios, ev, i, partial) ==
    LET call == w.functions[function].calls[i]
        callee == call.callee_id
    IN  IF callee = function THEN Return(w, partial)
        ELSE IF callee \notin DOMAIN w.functions THEN Raise(w, "KeyError")
        ELSE IF w.functions[callee].cycle # cycle
        THEN IF ~Has(call, ev.out) THEN Raise(w, "AssertionError")
             ELSE Return(w, RAdd(partial,
                                 RMul(partial_ratio, call.events[ev.out])))
        ELSE IF callee \notin DOMAIN ranks \/ function \notin DOMAIN ranks
        THEN Raise(w, "KeyError")
        ELSE IF ranks[callee] > ranks[function]
        THEN add_callee_partial(
                integrate_cycle_function(w, cycle, callee, partial_ratio,
                                         ranks, cratios, ev),
                function, callee, cratios, ev, i, partial)
        ELSE Return(w, partial)

\* call_ratio = ratio(call.ratio, call_ratios[callee]); the call's share
\* of callee_partial (w.ret) is added to call[outevent] and to partial.
add_callee_partial(w, function, callee, cratios, ev, i, partial) ==
    IF w.err # "ok" THEN w
    ELSE IF callee \notin DOMAIN cratios THEN Raise(w, "KeyError")
    ELSE add_call_partial(w, function, ev, i, partial,
            RMul(ratio(w.functions[function].calls[i].ratio, cratios[callee]),
                 w.ret))

\* call[outevent] += call_partial; partial += call_partial
add_call_partial(w, function, ev, i, partial, call_partial) ==
    Return([w EXCEPT !.functions[function].calls[i].events =
                       SetEvent(@, ev.out,
                                IF ev.out \in DOMAIN @
                                THEN RAdd(@[ev.out], call_partial)
                                ELSE call_partial)],
           RAdd(partial, call_partial))

(***************************************************************************)
(* Profile.integrate                                                       *)
(***************************************************************************)
\* The sanity checks without `assert outevent not in call`.
integrate_sane_calls_unchecked(fs, evs, outevent, inevent) ==
    /\ outevent \notin DOMAIN evs
    /\ \A id \in DOMAIN fs :
          /\ ~Has(fs[id], outevent)
          /\ Has(fs[id], inevent)
          /\ \A i \in 1..Len(fs[id].calls) :
                fs[id].calls[i].callee_id # id => fs[id].calls[i].ratio # None

\* The sanity checks: the conditions the assertions at the top demand.
integrate_sane(fs, evs, outevent, inevent) ==
    /\ outevent \notin DOMAIN evs
    /\ \A id \in DOMAIN fs :
          /\ ~Has(fs[id], outevent)
          /\ Has(fs[id], inevent)
          /\ \A i \in 1..Len(fs[id].calls) :
                /\ ~Has(fs[id].calls[i], outevent)
                /\ fs[id].calls[i].callee_id # id => fs[id].calls[i].ratio # None

\* total = inevent.aggregate(total, function[inevent]) over all Functions
RECURSIVE sum_inevent(_, _, _)
sum_inevent(fs, keys, inevent) ==
    IF keys = <<>> THEN null(inevent)
    ELSE aggregate(inevent, fs[Head(keys)].events[inevent],
                   sum_inevent(fs, Tail(keys), inevent))

\* Integrate along the edges, stopping after the first Function.
integrate_all_head(w, keys, todo, ev) ==
    IF todo = <<>> \/ w.err # "ok" THEN w
    ELSE integrate_function(w, keys, Head(todo), ev)

\* Integrate along the edges
RECURSIVE integrate_all(_, _, _, _)
integrate_all(w, keys, todo, ev) ==
    IF todo = <<>> \/ w.err # "ok" THEN w
    ELSE integrate_all(integrate_function(w, keys, Head(todo), ev), keys,
                       Tail(todo), ev)

\* Profile[outevent] taken from the out values instead.
profile_total_of_out(fs, keys, outevent, inevent) ==
    sum_inevent(fs, keys, outevent)

\* The value stored as Profile[outevent].
profile_total(fs, keys, outevent, inevent) == sum_inevent(fs, keys, inevent)

\* self[outevent] = total
set_profile_out(w, keys, outevent, inevent) ==
    IF w.err # "ok" THEN w
    ELSE [w EXCEPT !.events =
            SetEvent(@, outevent,
                     profile_total(w.functions, keys, outevent, inevent))]

\* if self.cycles: self[inevent] = the sum of function[inevent]
set_profile_in(w, keys, cys, inevent) ==
    IF cys # <<>>
    THEN [w EXCEPT !.events =
            SetEvent(@, inevent, sum_inevent(w.functions, keys, inevent))]
    ELSE w

integrate(fs, keys, cys, objs, evs, outevent, inevent) ==
    LET ev == [out |-> outevent, in |-> inevent]
        w0 == [functions |-> fs, cycleObjs |-> objs, events |-> evs,
               err |-> "ok", ret |-> RZero, partials |-> [m \in {} |-> RZero]]
    IN  IF ~integrate_sane(fs, evs, outevent, inevent)
        THEN Raise(w0, "AssertionError")
        ELSE IF keys # <<>> /\ ~CanAggregate(inevent)
        THEN Raise(w0, "AssertionError")
        ELSE set_profile_out(
                integrate_all(set_profile_in(w0, keys, cys, inevent),
                              keys, keys, ev),
                keys, outevent, inevent)

(***************************************************************************)
(* Profile.prune.  `paths` tells whether the paths argument is non-empty   *)
(* and `failing` holds the Functions whose filename or module then fails   *)
(* the path test; color_nodes_by_selftime is off.  The result is           *)
(* [functions, keys, err].                                                 *)
(***************************************************************************)
NoArgs == [node_thres |-> None, edge_thres |-> None, paths |-> FALSE]

\* function.weight = function[TOTAL_TIME_RATIO], unless undefined
prune_function_weight(function) ==
    IF Has(function, TOTAL_TIME_RATIO)
    THEN function.events[TOTAL_TIME_RATIO]
    ELSE function.weight

\* call.weight without the safe estimate.
prune_call_weight_exact_only(fs, function, call) ==
    IF Has(call, TOTAL_TIME_RATIO) THEN call.events[TOTAL_TIME_RATIO]
    ELSE call.weight

\* call.weight: the exact value, else the safe estimate, else as it was
prune_call_weight(fs, function, call) ==
    IF Has(call, TOTAL_TIME_RATIO) THEN call.events[TOTAL_TIME_RATIO]
    ELSE IF /\ Has(function, TOTAL_TIME_RATIO)
            /\ Has(fs[call.callee_id], TOTAL_TIME_RATIO)
    THEN RMin(function.events[TOTAL_TIME_RATIO],
              fs[call.callee_id].events[TOTAL_TIME_RATIO])
    ELSE call.weight

\* for call in function.calls.values(): ...; w = [functions, err]
RECURSIVE prune_call_weights(_, _, _)
prune_call_weights(w, id, i) ==
    IF i > Len(w.functions[id].calls) THEN w
    ELSE IF w.functions[id].calls[i].callee_id \notin DOMAIN w.functions
    THEN [w EXCEPT !.err = "KeyError"]
    ELSE prune_call_weights(
            [w EXCEPT !.functions[id].calls[i].weight =
                prune_call_weight(w.functions, w.functions[id],
                                  w.functions[id].calls[i])],
            id, i + 1)

\* compute the prune ratios
RECURSIVE prune_weights(_, _)
prune_weights(w, todo) ==
    IF todo = <<>> \/ w.err # "ok" THEN w
    ELSE prune_weights(
            prune_call_weights(
                [w EXCEPT !.functions[Head(todo)].weight =
                    prune_function_weight(w.functions[Head(todo)])],
                Head(todo), 1),
            Tail(todo))

\* The node test with <= in place of <.
prune_node_dropped_inclusive(function, node_thres) ==
    function.weight # None /\ RLe(function.weight, node_thres)

\* function.weight is not None and function.weight < node_thres
prune_node_dropped(function, node_thres) ==
    function.weight # None /\ RLt(function.weight, node_thres)

\* The edge test without the look-up of the callee.
prune_call_dropped_by_weight(kept, call, edge_thres) ==
    call.weight # None /\ RLt(call.weight, edge_thres)

\* callee_id not in self.functions or
\* call.weight is not None and call.weight < edge_thres
prune_call_dropped(kept, call, edge_thres) ==
    \/ call.callee_id \notin kept
    \/ call.weight # None /\ RLt(call.weight, edge_thres)

\* prune the edges of one Function
RECURSIVE prune_calls(_, _, _)
prune_calls(cs, kept, edge_thres) ==
    IF cs = <<>> THEN <<>>
    ELSE IF prune_call_dropped(kept, Head(cs), edge_thres)
    THEN prune_calls(Tail(cs), kept, edge_thres)
    ELSE <<Head(cs)>> \o prune_calls(Tail(cs), kept, edge_thres)

\* The Functions left by "prune the nodes" and "prune file paths".
prune_kept(fs, node_thres, paths, failing) ==
    {id \in DOMAIN fs : ~prune_node_dropped(fs[id], node_thres)}
        \ (IF paths THEN failing ELSE {})

prune_edges(fs, keys, kept, edge_thres) ==
    [functions |-> [id \in kept |->
                       [fs[id] EXCEPT !.calls = prune_calls(@, kept, edge_thres)]],
     keys |-> SeqFilter(keys, kept),
     err |-> "ok"]

prune_nodes(w, keys, node_thres, edge_thres, paths, failing) ==
    IF w.err # "ok"
    THEN [functions |-> w.functions, keys |-> keys, err |-> w.err]
    ELSE prune_edges(w.functions, keys,
                     prune_kept(w.functions, node_thres, paths, failing),
                     edge_thres)

prune(fs, keys, node_thres, edge_thres, paths, failing) ==
    prune_nodes(prune_weights([functions |-> fs, err |-> "ok"], keys),
                keys, node_thres, edge_thres, paths, failing)

(***************************************************************************)
(* Profile.prune_root and Profile.prune_leaf.  frontier.pop() takes any    *)
(* item of the set, so the traversal yields a set of possible `visited`.   *)
(***************************************************************************)
RECURSIVE prune_visit(_, _, _)
prune_visit(edges, frontier, visited) ==
    IF frontier = {} THEN {visited}
    ELSE UNION {
            IF item[2] = 0
            THEN prune_visit(edges, frontier \ {item}, visited \cup {item[1]})
            ELSE prune_visit(edges,
                    (frontier \ {item}) \cup
                        {<<n, item[2] - 1>> :
                            n \in edges[item[1]] \ (visited \cup {item[1]})},
                    visited \cup {item[1]})
            : item \in frontier}

\* f.calls = newCalls for every kept Function; self.functions = the kept
prune_subtree(fs, keep) ==
    [functions |-> [n \in keep |->
                       [fs[n] EXCEPT !.calls = CallsFilter(@, keep)]],
     keys |-> SetIter(keep),
     err |-> "ok"]

\* self.functions[node] finds every node the traversal can meet.
prune_root_ok(fs, roots) ==
    /\ roots \subseteq DOMAIN fs
    /\ \A id \in DOMAIN fs : CalleeIds(fs[id]) \subseteq DOMAIN fs

\* The callers of each Function in place of set(f.calls.keys()).
prune_root_edges_callers(fs) ==
    [id \in DOMAIN fs |-> {f \in DOMAIN fs : id \in CalleeIds(fs[f])}]

\* set(f.calls.keys())
prune_root_edges(fs) == [id \in DOMAIN fs |-> CalleeIds(fs[id])]

\* The possible results of prune_root(roots, depth).
prune_root(fs, keys, roots, depth) ==
    IF ~prune_root_ok(fs, roots)
    THEN {[functions |-> fs, keys |-> keys, err |-> "KeyError"]}
    ELSE {prune_subtree(fs, visited) :
             visited \in prune_visit(prune_root_edges(fs),
                                     {<<r, depth>> : r \in roots}, {})}

\* edgesUp, a defaultdict(set)
prune_leaf_edges(fs, leafs) ==
    [n \in DOMAIN fs \cup leafs \cup UNION {CalleeIds(fs[f]) : f \in DOMAIN fs} |->
        {f \in DOMAIN fs : n \in CalleeIds(fs[f])}]

\* The possible results of prune_leaf(leafs, depth).
prune_leaf(fs, keys, leafs, depth) ==
    {prune_subtree(fs, DOMAIN fs \cap visited) :
        visited \in prune_visit(prune_leaf_edges(fs, leafs),
                                {<<l, depth>> : l \in leafs}, {})}

(***************************************************************************)
(* Profile.ratio(outevent, inevent).  w = [functions, events, err].        *)
(***************************************************************************)
\* Profile[outevent] taken from Profile[inevent].
ratio_top_as_total(evs, inevent) == evs[inevent]

\* self[outevent] = 1.0
ratio_top(evs, inevent) == ROne

\* for call in function.calls.values(): ...
RECURSIVE ratio_calls(_, _, _, _, _)
ratio_calls(w, id, i, outevent, inevent) ==
    IF i > Len(w.functions[id].calls) THEN w
    ELSE IF Has(w.functions[id].calls[i], outevent)
    THEN [w EXCEPT !.err = "AssertionError"]
    ELSE ratio_calls(
            IF Has(w.functions[id].calls[i], inevent)
            THEN [w EXCEPT !.functions[id].calls[i].events =
                     SetEvent(@, outevent,
                              ratio(w.functions[id].calls[i].events[inevent],
                                    w.events[inevent]))]
            ELSE w,
            id, i + 1, outevent, inevent)

\* for function in self.functions.values(): ...
RECURSIVE ratio_functions(_, _, _, _)
ratio_functions(w, todo, outevent, inevent) ==
    IF todo = <<>> \/ w.err # "ok" THEN w
    ELSE IF \/ Has(w.functions[Head(todo)], outevent)
            \/ ~Has(w.functions[Head(todo)], inevent)
    THEN [w EXCEPT !.err = "AssertionError"]
    ELSE ratio_functions(
            ratio_calls(
                [w EXCEPT !.functions[Head(todo)].events =
                    SetEvent(@, outevent,
                             ratio(w.functions[Head(todo)].events[inevent],
                                   w.events[inevent]))],
                Head(todo), 1, outevent, inevent),
            Tail(todo), outevent, inevent)

\* self[outevent] = 1.0, when the loop has completed
ratio_set_top(w, outevent, inevent) ==
    IF w.err # "ok" THEN w
    ELSE [w EXCEPT !.events = SetEvent(@, outevent, ratio_top(w.events, inevent))]

Profile_ratio(fs, keys, evs, outevent, inevent) ==
    IF outevent \in DOMAIN evs \/ inevent \notin DOMAIN evs
    THEN [functions |-> fs, events |-> evs, err |-> "AssertionError"]
    ELSE ratio_set_top(
            ratio_functions([functions |-> fs, events |-> evs, err |-> "ok"],
                            keys, outevent, inevent),
            outevent, inevent)

(***************************************************************************)
(* Ingested profiles.  Function ids are 1..NumFuncs, registered in that    *)
(* order; id 0 is never registered (a call to it is a dangling call).      *)
(***************************************************************************)
Ids == 1..NumFuncs
Undefined == 0

\* The call graphs with at most n calls whose callees are drawn from dom.
Graphs(dom, n) == {E \in SUBSET (Ids \X dom) : Cardinality(E) <= n}

RECURSIVE Reverse(_)
Reverse(s) == IF s = <<>> THEN <<>> ELSE Append(Reverse(Tail(s)), Head(s))

\* Function id's calls dict: one Call per edge of E, carrying wt[edge] as its
\* `event` value (no value when wt[edge] is None), inserted in ascending or
\* descending callee order.
MkCalls(id, E, wt, event, desc) ==
    LET asc == SetIter({c \in Ids \cup {Undefined} : <<id, c>> \in E})
        keys == IF desc THEN Reverse(asc) ELSE asc
    IN  [i \in 1..Len(keys) |->
            [Call(keys[i]) EXCEPT !.events =
                SetEvent(NoEvents, event, wt[<<id, keys[i]>>])]]

IdSeq == [i \in 1..NumFuncs |-> i]

(***************************************************************************)
(* The operations as actions.  An operation that raises leaves the objects *)
(* as they were when it raised and ends the run (status).                  *)
(***************************************************************************)
Validate ==
    /\ status = "ok" /\ stage = "ingested"
    /\ functions' = validate(functions)
    /\ warned' = warned \cup validate_warnings(functions)
    /\ stage' = "validated"
    /\ UNCHANGED <<fkeys, cycles, cycleObjs, events, status, args>>

DoFindCycles ==
    LET r == find_cycles(functions, fkeys, cycleObjs, cycles)
    IN  /\ functions' = r.functions
        /\ cycleObjs' = r.cycleObjs
        /\ cycles' = r.cycles
        /\ status' = r.err
        /\ UNCHANGED <<fkeys, events, warned, args>>

(***************************************************************************)
(* Spec: the derived-metric stages in the adapters' order, validate,       *)
(* find_cycles, call_ratios, integrate, with the gprof adapter's events    *)
(* (CALLS, TOTAL_TIME, TIME), on every ingested profile within the         *)
(* bounds: each Function carries a TIME in                                 *)
(* 1..MaxTime, each call a CALLS weight in 0..MaxWeight or none.           *)
(***************************************************************************)
Weights == {None} \cup {Int2Rat(n) : n \in 0..MaxWeight}
Times == {Int2Rat(n) : n \in 1..MaxTime}

Init ==
    \E E \in Graphs(Ids, MaxCalls) :
      \E wt \in [E -> Weights], tm \in [Ids -> Times] :
        /\ functions = [id \in Ids |->
              [Function(id) EXCEPT
                  !.events = SetEvent(NoEvents, TIME, tm[id]),
                  !.calls = MkCalls(id, E, wt, CALLS, FALSE)]]
        /\ fkeys = IdSeq
        /\ cycles = <<>>
        /\ cycleObjs = [c \in {} |-> Cycle]
        /\ events = NoEvents
        /\ warned = {}
        /\ stage = "ingested"
        /\ status = "ok"
        /\ args = NoArgs

FindCycles ==
    /\ status = "ok" /\ stage = "validated"
    /\ DoFindCycles
    /\ stage' = "cycles"

CallRatios ==
    /\ status = "ok" /\ stage = "cycles"
    /\ LET r == call_ratios(functions, fkeys, cycles, CALLS)
       IN  /\ functions' = r.functions
           /\ status' = r.err
    /\ stage' = "ratios"
    /\ UNCHANGED <<fkeys, cycles, cycleObjs, events, warned, args>>

Integrate ==
    /\ status = "ok" /\ stage = "ratios"
    /\ LET r == integrate(functions, fkeys, cycles, cycleObjs, events,
                          TOTAL_TIME, TIME)
       IN  /\ functions' = r.functions
           /\ cycleObjs' = r.cycleObjs
           /\ events' = r.events
           /\ status' = r.err
    /\ stage' = "integrated"
    /\ UNCHANGED <<fkeys, cycles, warned, args>>

Next == Validate \/ FindCycles \/ CallRatios \/ Integrate

Spec == Init /\ [][Next]_vars

(***************************************************************************)
(* SpecCycles: the cycle detector on every small call graph, validated or  *)
(* not, run any number of times.                                           *)
(***************************************************************************)
InitCycles ==
    \E E \in Graphs(Ids \cup {Undefined}, MaxCalls), desc \in BOOLEAN :
        /\ functions = [id \in Ids |->
              [Function(id) EXCEPT !.calls =
                  MkCalls(id, E, [e \in E |-> None], CALLS, desc)]]
        /\ fkeys = IdSeq
        /\ cycles = <<>>
        /\ cycleObjs = [c \in {} |-> Cycle]
        /\ events = NoEvents
        /\ warned = {}
        /\ stage = "ingested"
        /\ status = "ok"
        /\ args = NoArgs

FindCyclesAny ==
    /\ status = "ok"
    /\ Cardinality(DOMAIN cycleObjs) < MaxCycleObjs
    /\ DoFindCycles
    /\ stage' = IF stage = "ingested" THEN "ingested" ELSE "cycles"

NextCycles == Validate \/ FindCyclesAny

SpecCycles == InitCycles /\ [][NextCycles]_vars

(***************************************************************************)
(* Reachability along calls, and the grouping the Functions' cycle         *)
(* references describe.                                                    *)
(***************************************************************************)
Callees(fs, S) == UNION {CalleeIds(fs[a]) \cap DOMAIN fs : a \in S}

RECURSIVE ReachFrom(_, _)
ReachFrom(fs, S) ==
    LET T == S \cup Callees(fs, S)
    IN  IF T = S THEN S ELSE ReachFrom(fs, T)

\* b is reachable from a along one or more calls.
Reaches(fs, a, b) == b \in ReachFrom(fs, Callees(fs, {a}))

Mutual(fs, a, b) == Reaches(fs, a, b) /\ Reaches(fs, b, a)

\* The groups of Functions that point to the same Cycle, and the ungrouped ones.
Groups(fs) ==
    {{b \in DOMAIN fs : fs[b].cycle = fs[a].cycle} :
        a \in {x \in DOMAIN fs : fs[x].cycle # NoCycle}}
Ungrouped(fs) == {a \in DOMAIN fs : fs[a].cycle = NoCycle}
MemberSets(objs, cys) == {objs[cys[i]].functions : i \in 1..Len(cys)}

\* C5: after find_cycles on a validated profile, two distinct Functions share
\* a Cycle exactly when each reaches the other; a Function mutually reachable
\* with no other Function is in no Cycle; Profile.cycles lists each Cycle of
\* a Function exactly once.
C5_CyclesAreSCCs ==
    (stage = "cycles" /\ status = "ok") =>
        /\ \A a, b \in DOMAIN functions :
              a # b =>
                 ((functions[a].cycle # NoCycle
                      /\ functions[a].cycle = functions[b].cycle)
                   <=> Mutual(functions, a, b))
        /\ \A a \in DOMAIN functions :
              (\A b \in DOMAIN functions \ {a} : ~Mutual(functions, a, b))
                 => functions[a].cycle = NoCycle
        /\ Range(cycles) = {functions[a].cycle : a \in DOMAIN functions} \ {NoCycle}
        /\ Len(cycles) = Cardinality(Range(cycles))

C5_Witness ==
    /\ stage = "cycles" /\ status = "ok"
    /\ Len(cycles) = 1
    /\ \E a \in DOMAIN functions :
          /\ functions[a].cycle = NoCycle
          /\ a \in CalleeIds(functions[a])
    /\ \E a, b \in DOMAIN functions : a # b /\ Mutual(functions, a, b)

\* C6: a second find_cycles run on a validated profile ends normally and
\* leaves the grouping of the Functions, the member sets of the Cycles in
\* Profile.cycles and the length of Profile.cycles as the first run left them.
C6_FindCyclesIdempotent ==
    [][(stage = "cycles" /\ stage' = "cycles") =>
          /\ status' = "ok"
          /\ Groups(functions') = Groups(functions)
          /\ Ungrouped(functions') = Ungrouped(functions)
          /\ MemberSets(cycleObjs', cycles') = MemberSets(cycleObjs, cycles)
          /\ Len(cycles') = Len(cycles)]_vars

C6_Witness ==
    /\ stage = "cycles" /\ status = "ok"
    /\ Cardinality(DOMAIN cycleObjs) = 2
    /\ Len(cycles) = 1

\* C8: validate leaves only calls to registered Functions; it drops exactly
\* the calls whose callee is unregistered (warning about each), keeps every
\* other call as it was, and removes or changes no Function otherwise.
C8_ValidateExact ==
    [][(stage = "ingested" /\ stage' = "validated") =>
          /\ DOMAIN functions' = DOMAIN functions
          /\ fkeys' = fkeys
          /\ \A id \in DOMAIN functions :
                LET old == functions[id]
                    new == functions'[id]
                IN  /\ CalleeIds(new) \subseteq DOMAIN functions'
                    /\ CalleeIds(new) = CalleeIds(old) \cap DOMAIN functions
                    /\ Len(new.calls) = Cardinality(CalleeIds(new))
                    /\ \A c \in CalleeIds(new) :
                          new.calls[CallIndex(new, c)] = old.calls[CallIndex(old, c)]
                    /\ \A c, d \in CalleeIds(new) :
                          CallIndex(new, c) < CallIndex(new, d)
                             <=> CallIndex(old, c) < CallIndex(old, d)
                    /\ [new EXCEPT !.calls = <<>>] = [old EXCEPT !.calls = <<>>]
          /\ warned' = {<<id, c>> \in (DOMAIN functions) \X {Undefined} :
                          c \in CalleeIds(functions[id])}]_vars

C8_Witness ==
    /\ stage = "validated"
    /\ Cardinality(warned) = 2
    /\ \E id \in DOMAIN functions :
          /\ <<id, Undefined>> \in warned
          /\ functions[id].calls # <<>>

(***************************************************************************)
(* SpecMembers: Cycle.add_function called on any Cycle (an existing one or *)
(* a fresh Cycle()) with any Function, as an ingestion adapter does, and   *)
(* find_cycles runs, in any order, on validated call graphs.               *)
(***************************************************************************)
InitMembers ==
    \E E \in Graphs(Ids, MaxCalls) :
        /\ functions = [id \in Ids |->
              [Function(id) EXCEPT !.calls =
                  MkCalls(id, E, [e \in E |-> None], CALLS, FALSE)]]
        /\ fkeys = IdSeq
        /\ cycles = <<>>
        /\ cycleObjs = [c \in {} |-> Cycle]
        /\ events = NoEvents
        /\ warned = {}
        /\ stage = "validated"
        /\ status = "ok"
        /\ args = NoArgs

CycleAddFunction ==
    /\ status = "ok"
    /\ \E self \in 1..MaxCycleObjs, function \in DOMAIN functions :
          /\ self <= NewCycle(cycleObjs)
          /\ LET objs == [c \in DOMAIN cycleObjs \cup {self} |->
                            IF c \in DOMAIN cycleObjs THEN cycleObjs[c] ELSE Cycle]
                 w == add_function([functions |-> functions, cycleObjs |-> objs,
                                    err |-> "ok"], self, function)
             IN  /\ functions' = w.functions
                 /\ cycleObjs' = w.cycleObjs
                 /\ status' = w.err
    /\ UNCHANGED <<fkeys, cycles, events, warned, stage, args>>

FindCyclesMembers ==
    /\ status = "ok"
    /\ Cardinality(DOMAIN cycleObjs) < MaxCycleObjs
    /\ DoFindCycles
    /\ stage' = "cycles"

NextMembers == CycleAddFunction \/ FindCyclesMembers

SpecMembers == InitMembers /\ [][NextMembers]_vars

\* C7: cycle membership is symmetric: a Function that points to a Cycle is
\* one of its members, and every member of that Cycle points to it.
C7_MembershipSymmetric ==
    status = "ok" =>
        \A a \in DOMAIN functions :
            LET K == functions[a].cycle
            IN  K # NoCycle =>
                   /\ a \in cycleObjs[K].functions
                   /\ \A b \in cycleObjs[K].functions : functions[b].cycle = K

(***************************************************************************)
(* The integrated values, read back from the objects.                      *)
(***************************************************************************)
RECURSIVE RSum(_)
RSum(s) == IF s = <<>> THEN RZero ELSE RAdd(Head(s), RSum(Tail(s)))

Integrated == stage = "integrated" /\ status = "ok"

IsSelf(id, i) == functions[id].calls[i].callee_id = id
CalleeOf(id, i) == functions[functions[id].calls[i].callee_id]

\* call.ratio * callee[outevent]
CalleeShare(id, i) ==
    RMul(functions[id].calls[i].ratio, CalleeOf(id, i).events[TOTAL_TIME])

\* function[inevent] + the shares of the non-self calls
AcyclicOut(id) ==
    RAdd(functions[id].events[TIME],
         RSum([i \in 1..Len(functions[id].calls) |->
                  IF IsSelf(id, i) THEN RZero ELSE CalleeShare(id, i)]))

\* member[inevent] + call[outevent] of the calls that leave the cycle
MemberSubtotal(m, c) ==
    RAdd(functions[m].events[TIME],
         RSum([i \in 1..Len(functions[m].calls) |->
                  IF CalleeOf(m, i).cycle # c
                  THEN functions[m].calls[i].events[TOTAL_TIME]
                  ELSE RZero]))

CycleSum(c) ==
    RSum([j \in 1..Cardinality(cycleObjs[c].functions) |->
             MemberSubtotal(SetIter(cycleObjs[c].functions)[j], c)])

\* A call from outside cycle c to one of its members.
Enters(id, i, c) == functions[id].cycle # c /\ CalleeOf(id, i).cycle = c

\* The spec's chain A->B->C with exclusive 1, 2, 3 and every call weight 1,
\* taken through validate, find_cycles, call_ratios and integrate.
ChainProfile ==
    [id \in {1, 2, 3} |->
        [Function(id) EXCEPT
            !.events = SetEvent(NoEvents, TIME, Int2Rat(id)),
            !.calls = IF id = 3 THEN <<>>
                      ELSE <<[Call(id + 1) EXCEPT
                                !.events = SetEvent(NoEvents, CALLS, ROne)]>>]]

ChainIntegrated ==
    LET keys == <<1, 2, 3>>
        c == find_cycles(validate(ChainProfile), keys, [k \in {} |-> Cycle], <<>>)
        r == call_ratios(c.functions, keys, c.cycles, CALLS)
    IN  integrate(r.functions, keys, c.cycles, c.cycleObjs, NoEvents,
                  TOTAL_TIME, TIME)

\* C1: after integrate(TOTAL_TIME, TIME) completes, on a profile with or
\* without cycles, Profile[TOTAL_TIME] is the sum of Function[TIME] over all
\* registered Functions.
C1_ProfileTotalIsSumOfIn ==
    Integrated =>
        /\ TOTAL_TIME \in DOMAIN events
        /\ events[TOTAL_TIME] =
              RSum([i \in 1..Len(fkeys) |-> functions[fkeys[i]].events[TIME]])

C1_Witness ==
    /\ Integrated
    /\ cycles # <<>>
    /\ events[TOTAL_TIME] = Int2Rat(4)
    /\ \E id \in DOMAIN functions :
          functions[id].events[TOTAL_TIME] # functions[id].events[TIME]

\* C2: when no Function is in a cycle, after call_ratios and integrate every
\* Function's TOTAL_TIME is its TIME plus, over its non-self calls,
\* ratio * callee's TOTAL_TIME, and every non-self call's TOTAL_TIME is
\* ratio * callee's TOTAL_TIME; the chain with TIME 1, 2, 3 and ratios 1
\* integrates to 6, 5, 3.
C2_AcyclicIntegration ==
    /\ (Integrated /\ \A id \in DOMAIN functions : functions[id].cycle = NoCycle)
          => \A id \in DOMAIN functions :
                /\ Has(functions[id], TOTAL_TIME)
                /\ functions[id].events[TOTAL_TIME] = AcyclicOut(id)
                /\ \A i \in 1..Len(functions[id].calls) :
                      ~IsSelf(id, i) =>
                         /\ Has(functions[id].calls[i], TOTAL_TIME)
                         /\ functions[id].calls[i].events[TOTAL_TIME] =
                               CalleeShare(id, i)
    /\ ChainIntegrated.err = "ok"
    /\ \A id \in {1, 2} :
          ChainIntegrated.functions[id].calls[1].ratio = ROne
    /\ [id \in {1, 2, 3} |-> ChainIntegrated.functions[id].events[TOTAL_TIME]]
          = <<Int2Rat(6), Int2Rat(5), Int2Rat(3)>>

C2_Witness ==
    /\ Integrated
    /\ cycles = <<>>
    /\ \E a, b, c \in DOMAIN functions :
          /\ a # b /\ b # c /\ a # c
          /\ CalleeIds(functions[a]) = {a, b}
          /\ CalleeIds(functions[c]) = {b}
          /\ functions[a].calls[CallIndex(functions[a], b)].ratio = Rat(1, 3)
          /\ functions[c].calls[1].ratio = Rat(2, 3)
          /\ functions[b].events[TOTAL_TIME] = Int2Rat(2)
          /\ functions[a].events[TOTAL_TIME] = Rat(5, 3)

\* C3: after find_cycles, call_ratios and integrate, every Cycle's
\* TOTAL_TIME is the sum over its members of TIME plus the TOTAL_TIME of the
\* calls leaving the cycle; every call entering the cycle from outside has
\* TOTAL_TIME = ratio * the Cycle's TOTAL_TIME; a caller whose only call
\* enters the cycle with ratio 1 has TOTAL_TIME = its TIME + the Cycle's.
C3_CycleIntegration ==
    Integrated =>
        \A k \in 1..Len(cycles) :
            LET c == cycles[k]
                total == cycleObjs[c].events[TOTAL_TIME]
            IN  /\ Has(cycleObjs[c], TOTAL_TIME)
                /\ total = CycleSum(c)
                /\ \A id \in DOMAIN functions :
                      /\ \A i \in 1..Len(functions[id].calls) :
                            Enters(id, i, c) =>
                               /\ Has(functions[id].calls[i], TOTAL_TIME)
                               /\ functions[id].calls[i].events[TOTAL_TIME] =
                                     RMul(functions[id].calls[i].ratio, total)
                      /\ ( /\ Len(functions[id].calls) = 1
                           /\ Enters(id, 1, c)
                           /\ functions[id].calls[1].ratio = ROne )
                            => functions[id].events[TOTAL_TIME] =
                                  RAdd(functions[id].events[TIME], total)

C3_Witness ==
    /\ Integrated
    /\ \E c \in Range(cycles), e \in DOMAIN functions :
          /\ Len(functions[e].calls) = 1
          /\ Enters(e, 1, c)
          /\ functions[e].calls[1].ratio = ROne
          /\ cycleObjs[c].events[TOTAL_TIME] = Int2Rat(3)
          /\ functions[e].events[TOTAL_TIME] = Int2Rat(5)

(***************************************************************************)
(* SpecRatios: call_ratios(CALLS) on validated call graphs whose calls     *)
(* carry any weight in -1..MaxWeight or none, with the cycles as           *)
(* find_cycles leaves them or with no cycle detection at all.              *)
(***************************************************************************)
AnyWeights == {None} \cup {Int2Rat(n) : n \in -1..MaxWeight}

InitRatios ==
    \E E \in Graphs(Ids, MaxCalls) :
      \E wt \in [E -> AnyWeights] :
        /\ functions = [id \in Ids |->
              [Function(id) EXCEPT !.calls = MkCalls(id, E, wt, CALLS, FALSE)]]
        /\ fkeys = IdSeq
        /\ cycles = <<>>
        /\ cycleObjs = [c \in {} |-> Cycle]
        /\ events = NoEvents
        /\ warned = {}
        /\ stage = "ingested"
        /\ status = "ok"
        /\ args = NoArgs

CallRatiosAny ==
    /\ status = "ok" /\ stage \in {"validated", "cycles"}
    /\ LET r == call_ratios(functions, fkeys, cycles, CALLS)
       IN  /\ functions' = r.functions
           /\ status' = r.err
    /\ stage' = "ratios"
    /\ UNCHANGED <<fkeys, cycles, cycleObjs, events, warned, args>>

NextRatios == Validate \/ FindCycles \/ CallRatiosAny

SpecRatios == InitRatios /\ [][NextRatios]_vars

\* C4: after call_ratios on a validated profile, whatever the cycles and the
\* call weights (zero, negative or missing), call_ratios has completed and
\* every non-self Call has a ratio, with 0 <= ratio <= 1.
C4_RatiosInUnitInterval ==
    stage = "ratios" =>
        /\ status = "ok"
        /\ \A id \in DOMAIN functions :
              \A i \in 1..Len(functions[id].calls) :
                 ~IsSelf(id, i) =>
                    /\ functions[id].calls[i].ratio # None
                    /\ RLe(RZero, functions[id].calls[i].ratio)
                    /\ RLe(functions[id].calls[i].ratio, ROne)

\* call[CALLS], None when the call has no CALLS data.
WeightOf(call) == IF Has(call, CALLS) THEN call.events[CALLS] ELSE None

C4_Witness ==
    /\ stage = "ratios"
    /\ cycles # <<>>
    /\ \E a, b, c \in DOMAIN functions :
          /\ functions[a].cycle # NoCycle
          /\ functions[c].cycle = NoCycle
          /\ \E i \in 1..Len(functions[a].calls) :
                /\ functions[a].calls[i].callee_id = b
                /\ WeightOf(functions[a].calls[i]) = Int2Rat(-1)
                /\ functions[a].calls[i].ratio = RZero
          /\ Len(functions[c].calls) = 1
          /\ functions[c].calls[1].callee_id = b
          /\ WeightOf(functions[c].calls[1]) = Int2Rat(2)
          /\ functions[c].calls[1].ratio = ROne
          /\ \E i \in 1..Len(functions[b].calls) :
                /\ functions[b].calls[i].callee_id = a
                /\ WeightOf(functions[b].calls[i]) = RZero
                /\ functions[b].calls[i].ratio = ROne

(***************************************************************************)
(* SpecPrune: prune, prune_root and prune_leaf, any number of times in any *)
(* order, on validated call graphs whose Functions and Calls carry a       *)
(* TOTAL_TIME_RATIO in 0..1 or none.  Roots and leaves are non-empty sets  *)
(* of registered ids, as getFunctionIds gives the driver.                  *)
(***************************************************************************)
NumPruneCalls == 2
RatioSteps == 1
MaxDepth == 1

Thresholds == {Rat(n, RatioSteps) : n \in 0..RatioSteps}
PruneRatios == {None} \cup Thresholds
Depths == -1..MaxDepth

InitPrune ==
    \E E \in Graphs(Ids, NumPruneCalls) :
      \E cr \in [E -> PruneRatios], fr \in [Ids -> PruneRatios] :
        /\ functions = [id \in Ids |->
              [Function(id) EXCEPT
                  !.events = SetEvent(NoEvents, TOTAL_TIME_RATIO, fr[id]),
                  !.calls = MkCalls(id, E, cr, TOTAL_TIME_RATIO, FALSE)]]
        /\ fkeys = IdSeq
        /\ cycles = <<>>
        /\ cycleObjs = [c \in {} |-> Cycle]
        /\ events = NoEvents
        /\ warned = {}
        /\ stage = "validated"
        /\ status = "ok"
        /\ args = NoArgs

Pruned(r) ==
    /\ functions' = r.functions
    /\ fkeys' = r.keys
    /\ status' = r.err
    /\ stage' = "pruned"
    /\ UNCHANGED <<cycles, cycleObjs, events, warned>>

Prune ==
    /\ status = "ok"
    /\ \E node_thres \in Thresholds, edge_thres \in Thresholds,
          failing \in {{}} \cup {{id} : id \in DOMAIN functions} :
          /\ Pruned(prune(functions, fkeys, node_thres, edge_thres,
                          failing # {}, failing))
          /\ args' = [node_thres |-> node_thres, edge_thres |-> edge_thres,
                      paths |-> failing # {}]

PruneRoot ==
    /\ status = "ok"
    /\ \E roots \in SUBSET DOMAIN functions \ {{}}, depth \in Depths :
          \E r \in prune_root(functions, fkeys, roots, depth) : Pruned(r)
    /\ args' = NoArgs

PruneLeaf ==
    /\ status = "ok"
    /\ \E leafs \in SUBSET DOMAIN functions \ {{}}, depth \in Depths :
          \E r \in prune_leaf(functions, fkeys, leafs, depth) : Pruned(r)
    /\ args' = NoArgs

NextPrune == Prune \/ PruneRoot \/ PruneLeaf

SpecPrune == InitPrune /\ [][NextPrune]_vars

\* C9: from a validated profile, every prune, prune_root or prune_leaf
\* (roots and leaves from the registered ids) completes, leaves every
\* remaining Call targeting a surviving Function, and leaves a subset of
\* the Functions there were before it.
C9_PruningKeepsCallsClosed ==
    [][/\ status' = "ok"
       /\ DOMAIN functions' \subseteq DOMAIN functions
       /\ Range(fkeys') = DOMAIN functions'
       /\ \A id \in DOMAIN functions' :
             CalleeIds(functions'[id]) \subseteq DOMAIN functions']_vars

C9_Witness ==
    /\ stage = "pruned"
    /\ args = NoArgs
    /\ Cardinality(DOMAIN functions) = 2
    /\ \E a, b \in DOMAIN functions :
          /\ a # b
          /\ CalleeIds(functions[a]) = {b}
          /\ functions[a].weight # None
          /\ functions[a].calls[1].weight # None

\* C10: prune with empty paths and recolouring off, on a profile whose
\* Function weights are all unset, removes a Function iff its
\* TOTAL_TIME_RATIO is defined and strictly below node_thres.
C10_PruneRemovesBelowThreshold ==
    [][( /\ args' # NoArgs
         /\ ~args'.paths
         /\ \A id \in DOMAIN functions : functions[id].weight = None )
        => \A id \in DOMAIN functions :
              id \notin DOMAIN functions' <=>
                 /\ Has(functions[id], TOTAL_TIME_RATIO)
                 /\ RLt(functions[id].events[TOTAL_TIME_RATIO],
                        args'.node_thres)]_vars

C10_Witness ==
    /\ args # NoArgs
    /\ ~args.paths
    /\ args.node_thres = ROne
    /\ Cardinality(DOMAIN functions) = NumFuncs - 1
    /\ \E a, b \in DOMAIN functions :
          /\ functions[a].weight = ROne
          /\ ~Has(functions[b], TOTAL_TIME_RATIO)
          /\ functions[b].weight = None

(***************************************************************************)
(* SpecRoot: prune_root(roots, depth) with depth >= 0, any number of       *)
(* times, on validated call graphs over NumRootFuncs Functions with at     *)
(* most NumRootCalls calls.  args records the roots and the depth of the   *)
(* call that ran last.                                                     *)
(***************************************************************************)
NumRootFuncs == 4
NumRootCalls == 3
MaxRootDepth == 2

RootIds == 1..NumRootFuncs
RootGraphs == {E \in SUBSET (RootIds \X RootIds) : Cardinality(E) <= NumRootCalls}

\* function.add_call(Call(callee_id)) for the callees of id, ascending
RootCalls(id, E) ==
    LET asc == SetIter({c \in RootIds : <<id, c>> \in E})
    IN  [i \in 1..Len(asc) |-> Call(asc[i])]

InitRoot ==
    \E E \in RootGraphs :
        /\ functions = [id \in RootIds |->
              [Function(id) EXCEPT !.calls = RootCalls(id, E)]]
        /\ fkeys = [i \in 1..NumRootFuncs |-> i]
        /\ cycles = <<>>
        /\ cycleObjs = [c \in {} |-> Cycle]
        /\ events = NoEvents
        /\ warned = {}
        /\ stage = "validated"
        /\ status = "ok"
        /\ args = NoArgs

PruneRootDepth ==
    /\ status = "ok"
    /\ \E roots \in SUBSET DOMAIN functions \ {{}}, depth \in 0..MaxRootDepth :
          /\ \E r \in prune_root(functions, fkeys, roots, depth) : Pruned(r)
          /\ args' = [roots |-> roots, depth |-> depth]

NextRoot == PruneRootDepth

SpecRoot == InitRoot /\ [][NextRoot]_vars

\* The Functions within k hops of the set S along outgoing calls.
RECURSIVE WithinHops(_, _, _)
WithinHops(fs, S, k) ==
    IF k = 0 THEN S
    ELSE WithinHops(fs,
            S \cup UNION {CalleeIds(fs[id]) \cap DOMAIN fs : id \in S}, k - 1)

\* C11: prune_root(roots, depth) with depth >= 0 completes and retains
\* exactly the Functions whose shortest hop distance over outgoing calls
\* from some root is at most depth, whatever the order the frontier is
\* popped in; a single root with depth 1 keeps the root and its callees.
C11_RootKeepsWithinDepth ==
    [][stage' = "pruned" =>
          /\ status' = "ok"
          /\ DOMAIN functions' =
                WithinHops(functions, args'.roots, args'.depth)]_vars

(***************************************************************************)
(* SpecPct: ratio(TIME_RATIO, SAMPLES) on validated call graphs where      *)
(* SAMPLES is defined on the Profile and on every Function (0..MaxTime),   *)
(* and on the Calls or not (-1..MaxWeight, or none); a second call of      *)
(* ratio follows the first.                                                *)
(***************************************************************************)
Samples == {Int2Rat(n) : n \in 0..MaxTime}

InitPct ==
    \E E \in Graphs(Ids, NumPruneCalls) :
      \E wt \in [E -> AnyWeights], sm \in [Ids -> Samples], total \in Samples :
        /\ functions = [id \in Ids |->
              [Function(id) EXCEPT
                  !.events = SetEvent(NoEvents, SAMPLES, sm[id]),
                  !.calls = MkCalls(id, E, wt, SAMPLES, FALSE)]]
        /\ fkeys = IdSeq
        /\ cycles = <<>>
        /\ cycleObjs = [c \in {} |-> Cycle]
        /\ events = SetEvent(NoEvents, SAMPLES, total)
        /\ warned = {}
        /\ stage = "validated"
        /\ status = "ok"
        /\ args = NoArgs

Ratio ==
    /\ status = "ok"
    /\ LET r == Profile_ratio(functions, fkeys, events, TIME_RATIO, SAMPLES)
       IN  /\ functions' = r.functions
           /\ events' = r.events
           /\ status' = r.err
    /\ stage' = "ratio"
    /\ UNCHANGED <<fkeys, cycles, cycleObjs, warned, args>>

NextPct == Ratio

SpecPct == InitPct /\ [][NextPct]_vars

\* abs / total clamped to [0, 1], 1.0 when total is 0
SafeDivide(abs, total) ==
    IF total[1] = 0 THEN ROne
    ELSE IF RLt(RDiv(abs, total), RZero) THEN RZero
    ELSE IF RLt(ROne, RDiv(abs, total)) THEN ROne
    ELSE RDiv(abs, total)

\* C12: ratio(TIME_RATIO, SAMPLES), run where SAMPLES is defined on the
\* Profile and on every Function and TIME_RATIO nowhere, completes with
\* Profile[TIME_RATIO] = 1, every Function's TIME_RATIO = its SAMPLES over
\* Profile[SAMPLES] clamped to [0,1] (1 when the total is 0), the same on
\* every Call that has SAMPLES, and no TIME_RATIO on a Call without SAMPLES.
C12_RatioNormalises ==
    [][(stage = "validated" /\ stage' = "ratio") =>
          /\ status' = "ok"
          /\ events' = SetEvent(events, TIME_RATIO, ROne)
          /\ DOMAIN functions' = DOMAIN functions
          /\ \A id \in DOMAIN functions :
                /\ functions'[id].events =
                      SetEvent(functions[id].events, TIME_RATIO,
                               SafeDivide(functions[id].events[SAMPLES],
                                          events[SAMPLES]))
                /\ Len(functions'[id].calls) = Len(functions[id].calls)
                /\ \A i \in 1..Len(functions[id].calls) :
                      functions'[id].calls[i].events =
                         IF Has(functions[id].calls[i], SAMPLES)
                         THEN SetEvent(functions[id].calls[i].events, TIME_RATIO,
                                  SafeDivide(functions[id].calls[i].events[SAMPLES],
                                             events[SAMPLES]))
                         ELSE functions[id].calls[i].events]_vars

C12_Witness ==
    /\ stage = "ratio" /\ status = "ok"
    /\ events[SAMPLES] = Int2Rat(2)
    /\ events[TIME_RATIO] = ROne
    /\ \E a, b \in DOMAIN functions :
          /\ functions[a].events[SAMPLES] = ROne
          /\ functions[a].events[TIME_RATIO] = Rat(1, 2)
          /\ Len(functions[a].calls) = 2
          /\ ~Has(functions[a].calls[1], SAMPLES)
          /\ ~Has(functions[a].calls[1], TIME_RATIO)
          /\ Has(functions[a].calls[2], SAMPLES)
          /\ functions[a].calls[2].events[SAMPLES] = Int2Rat(-1)
          /\ functions[a].calls[2].events[TIME_RATIO] = RZero
          /\ functions[b].events[SAMPLES] = RZero
          /\ functions[b].events[TIME_RATIO] = RZero

(***************************************************************************)
(* SpecSanity: integrate(TOTAL_TIME, TIME), once and again, after          *)
(* find_cycles, on validated call graphs where TIME and TOTAL_TIME are     *)
(* defined or not on each Function, a ratio and TOTAL_TIME are set or not  *)
(* on each Call, and TOTAL_TIME is defined or not on the Profile.          *)
(***************************************************************************)
\* <<inevent value, outevent value>> of a Function; <<ratio, outevent value>>
\* of a Call.
Marks == {<<ROne, None>>, <<None, None>>, <<ROne, ROne>>}

InitSanity ==
    \E E \in Graphs(Ids, NumPruneCalls) :
      \E fm \in [Ids -> Marks], cm \in [E -> Marks], top \in {None, ROne} :
        /\ functions = [id \in Ids |->
              [Function(id) EXCEPT
                  !.events = SetEvent(SetEvent(NoEvents, TIME, fm[id][1]),
                                      TOTAL_TIME, fm[id][2]),
                  !.calls =
                     LET cs == MkCalls(id, E, [e \in E |-> cm[e][2]],
                                       TOTAL_TIME, FALSE)
                     IN  [i \in 1..Len(cs) |->
                            [cs[i] EXCEPT
                               !.ratio = cm[<<id, cs[i].callee_id>>][1]]]]]
        /\ fkeys = IdSeq
        /\ cycles = <<>>
        /\ cycleObjs = [c \in {} |-> Cycle]
        /\ events = SetEvent(NoEvents, TOTAL_TIME, top)
        /\ warned = {}
        /\ stage = "validated"
        /\ status = "ok"
        /\ args = NoArgs

IntegrateAny ==
    /\ status = "ok" /\ stage \in {"cycles", "integrated"}
    /\ LET r == integrate(functions, fkeys, cycles, cycleObjs, events,
                          TOTAL_TIME, TIME)
       IN  /\ functions' = r.functions
           /\ cycleObjs' = r.cycleObjs
           /\ events' = r.events
           /\ status' = r.err
    /\ stage' = "integrated"
    /\ UNCHANGED <<fkeys, cycles, warned, args>>

NextSanity == FindCycles \/ IntegrateAny

SpecSanity == InitSanity /\ [][NextSanity]_vars

\* out is defined on the Profile, a Function or a Call, or in is undefined
\* on a Function, or a non-self Call has no ratio.
PreconditionViolated ==
    \/ TOTAL_TIME \in DOMAIN events
    \/ \E id \in DOMAIN functions :
          \/ Has(functions[id], TOTAL_TIME)
          \/ ~Has(functions[id], TIME)
          \/ \E i \in 1..Len(functions[id].calls) :
                \/ Has(functions[id].calls[i], TOTAL_TIME)
                \/ ~IsSelf(id, i) /\ functions[id].calls[i].ratio = None

\* C13: integrate(TOTAL_TIME, TIME) run where TOTAL_TIME is already defined
\* on the Profile, a Function or a Call, or TIME is undefined on a Function,
\* or a non-self Call has no ratio, ends with an AssertionError and leaves
\* every object as it was; a second integrate after a completed one does so.
C13_IntegrateAbortsOnPrecondition ==
    [][(stage' = "integrated" /\ stage \in {"cycles", "integrated"}
          /\ (PreconditionViolated \/ stage = "integrated"))
        => /\ status' = "AssertionError"
           /\ functions' = functions
           /\ cycleObjs' = cycleObjs
           /\ events' = events]_vars

C13_Witness ==
    /\ stage = "integrated" /\ status = "AssertionError"
    /\ TOTAL_TIME \notin DOMAIN events
    /\ cycles # <<>>
    /\ \E a, b \in DOMAIN functions :
          /\ Has(functions[a], TIME) /\ ~Has(functions[a], TOTAL_TIME)
          /\ ~Has(functions[b], TIME) /\ ~Has(functions[b], TOTAL_TIME)
          /\ functions[b].cycle # NoCycle

(***************************************************************************)
(* SpecWide: validate, find_cycles, call_ratios(CALLS) and                 *)
(* integrate(TOTAL_TIME, TIME) on the call graphs drawn from a cycle of    *)
(* four Functions (1 calls 2 and 3, both call 4, 4 calls 1) with a caller  *)
(* outside it (5 calls 1 and 4); every call carries a CALLS weight or      *)
(* none, every Function a TIME of 1.                                       *)
(***************************************************************************)
NumWideFuncs == 5

WideIds == 1..NumWideFuncs

WideCalls == {<<5, 1>>, <<5, 4>>, <<1, 2>>, <<1, 3>>, <<2, 4>>, <<3, 4>>,
              <<4, 1>>}

WideWeights == {None, RZero, ROne}

InitWide ==
    \E E \in SUBSET WideCalls :
      \E wt \in [E -> WideWeights] :
        /\ functions = [id \in WideIds |->
              [Function(id) EXCEPT
                  !.events = SetEvent(NoEvents, TIME, ROne),
                  !.calls =
                     LET asc == SetIter({c \in WideIds : <<id, c>> \in E})
                     IN  [i \in 1..Len(asc) |->
                            [Call(asc[i]) EXCEPT !.events =
                                SetEvent(NoEvents, CALLS,
                                         wt[<<id, asc[i]>>])]]]]
        /\ fkeys = [i \in WideIds |-> i]
        /\ cycles = <<>>
        /\ cycleObjs = [c \in {} |-> Cycle]
        /\ events = NoEvents
        /\ warned = {}
        /\ stage = "ingested"
        /\ status = "ok"
        /\ args = NoArgs

SpecWide == InitWide /\ [][Next]_vars

\* Some non-self call has no CALLS value.
LacksWeight ==
    \E id \in DOMAIN functions : \E i \in 1..Len(functions[id].calls) :
        ~IsSelf(id, i) /\ ~Has(functions[id].calls[i], CALLS)

\* C14: call_ratios gives every non-self call without a CALLS value the
\* ratio 0, and the integrate that follows completes without an
\* AssertionError, whatever the shape of the graph.
C14_MissingWeightIsOnlyAWarning ==
    [][/\ (stage = "cycles" /\ stage' = "ratios") =>
            /\ status' = "ok"
            /\ \A id \in DOMAIN functions :
                 \A i \in 1..Len(functions[id].calls) :
                    (~IsSelf(id, i) /\ ~Has(functions[id].calls[i], CALLS))
                       => functions'[id].calls[i].ratio = RZero
       /\ (stage = "ratios" /\ stage' = "integrated" /\ LacksWeight) =>
            status' = "ok"]_vars

(***************************************************************************)
(* SpecSamples: the JSON adapter.  JsonParser.parse builds the profile     *)
(* from a list of events, each a callchain (innermost Function first) and  *)
(* a cost, then runs validate, find_cycles, ratio(TIME_RATIO, SAMPLES),    *)
(* call_ratios(SAMPLES2) and integrate(TOTAL_TIME_RATIO, TIME_RATIO); the  *)
(* driver then prunes.                                                     *)
(***************************************************************************)
MaxEvents == 2
MaxChain == 2

Callchains == UNION {[1..n -> Ids] : n \in 1..MaxChain}

JsonEvents ==
    UNION {[1..n -> [callchain : Callchains, cost : Samples]] :
              n \in 0..MaxEvents}

\* caller.calls[callee.id]: a new Call with SAMPLES2 = cost, or cost added
\* to the Call there is.
json_add_call(f, callee_id, cost) ==
    LET i == CallIndex(f, callee_id)
    IN  IF i = 0
        THEN [f EXCEPT !.calls =
                 Append(@, [Call(callee_id) EXCEPT
                               !.events = SetEvent(NoEvents, SAMPLES2, cost)])]
        ELSE [f EXCEPT !.calls[i].events[SAMPLES2] = RAdd(@, cost)]

\* for caller in callchain[1:], from position i on
RECURSIVE json_callers(_, _, _, _)
json_callers(fs, callchain, i, cost) ==
    IF i > Len(callchain) THEN fs
    ELSE json_callers(
            [fs EXCEPT ![callchain[i]] =
                json_add_call(@, callchain[i - 1], cost)],
            callchain, i + 1, cost)

\* for event in obj['events']
RECURSIVE json_events(_, _)
json_events(p, evts) ==
    IF evts = <<>> THEN p
    ELSE LET e == Head(evts)
             callee == e.callchain[1]
         IN  json_events(
                [functions |->
                    json_callers(
                       [p.functions EXCEPT ![callee].events[SAMPLES] =
                           RAdd(@, e.cost)],
                       e.callchain, 2, e.cost),
                 events |-> [p.events EXCEPT ![SAMPLES] = RAdd(@, e.cost)]],
                Tail(evts))

\* The Profile as it is when parse reaches validate.
JsonParser_parse(evts) ==
    json_events(
       [functions |-> [id \in Ids |->
           [Function(id) EXCEPT
               !.events = SetEvent(NoEvents, SAMPLES, RZero)]],
        events |-> SetEvent(NoEvents, SAMPLES, RZero)],
       evts)

InitSamples ==
    \E evts \in JsonEvents :
        /\ functions = JsonParser_parse(evts).functions
        /\ fkeys = IdSeq
        /\ cycles = <<>>
        /\ cycleObjs = [c \in {} |-> Cycle]
        /\ events = JsonParser_parse(evts).events
        /\ warned = {}
        /\ stage = "ingested"
        /\ status = "ok"
        /\ args = NoArgs

RatioSamples ==
    /\ status = "ok" /\ stage = "cycles"
    /\ LET r == Profile_ratio(functions, fkeys, events, TIME_RATIO, SAMPLES)
       IN  /\ functions' = r.functions
           /\ events' = r.events
           /\ status' = r.err
    /\ stage' = "pct"
    /\ UNCHANGED <<fkeys, cycles, cycleObjs, warned, args>>

CallRatiosSamples ==
    /\ status = "ok" /\ stage = "pct"
    /\ LET r == call_ratios(functions, fkeys, cycles, SAMPLES2)
       IN  /\ functions' = r.functions
           /\ status' = r.err
    /\ stage' = "ratios"
    /\ UNCHANGED <<fkeys, cycles, cycleObjs, events, warned, args>>

IntegrateSamples ==
    /\ status = "ok" /\ stage = "ratios"
    /\ LET r == integrate(functions, fkeys, cycles, cycleObjs, events,
                          TOTAL_TIME_RATIO, TIME_RATIO)
       IN  /\ functions' = r.functions
           /\ cycleObjs' = r.cycleObjs
           /\ events' = r.events
           /\ status' = r.err
    /\ stage' = "integrated"
    /\ UNCHANGED <<fkeys, cycles, warned, args>>

PruneParsed ==
    /\ stage = "integrated"
    /\ Prune

NextSamples ==
    \/ Validate
    \/ FindCycles
    \/ RatioSamples
    \/ CallRatiosSamples
    \/ IntegrateSamples
    \/ PruneParsed

SpecSamples == InitSamples /\ [][NextSamples]_vars

InUnitInterval(x) == RLe(RZero, x) /\ RLe(x, ROne)

\* C15: after the JSON adapter's pipeline and prune, every weight prune set
\* on a Function or a Call lies in [0, 1], whatever the non-negative costs.
C15_PruneWeightsInUnitInterval ==
    (stage = "pruned" /\ status = "ok") =>
        \A id \in DOMAIN functions :
            /\ functions[id].weight # None =>
                  InUnitInterval(functions[id].weight)
            /\ \A i \in 1..Len(functions[id].calls) :
                  functions[id].calls[i].weight # None =>
                     InUnitInterval(functions[id].calls[i].weight)

(***************************************************************************)
(* SpecOrder: the gprof pipeline from validated profiles whose functions   *)
(* dict is in any order and whose calls dicts are in ascending or          *)
(* descending callee order.  Set iteration and the heap's tie-break follow *)
(* the ids, which stand for the objects' addresses, so relabelling the     *)
(* Functions changes both.                                                 *)
(***************************************************************************)
Perms == {p \in [Ids -> Ids] : \A a, b \in Ids : p[a] = p[b] => a = b}

PositiveWeights == {Int2Rat(n) : n \in 1..MaxWeight}

NumOrderCalls == 4

\* Call graphs without self calls, large enough for a cycle entered at two
\* members.
OrderGraphs ==
    {E \in Graphs(Ids, NumOrderCalls) : \A e \in E : e[1] # e[2]}

InitOrder ==
    \E E \in OrderGraphs, keys \in Perms, desc \in BOOLEAN :
      \E wt \in [E -> PositiveWeights], tm \in [Ids -> Times] :
        /\ functions = [id \in Ids |->
              [Function(id) EXCEPT
                  !.events = SetEvent(NoEvents, TIME, tm[id]),
                  !.calls = MkCalls(id, E, wt, CALLS, desc)]]
        /\ fkeys = keys
        /\ cycles = <<>>
        /\ cycleObjs = [c \in {} |-> Cycle]
        /\ events = NoEvents
        /\ warned = {}
        /\ stage = "validated"
        /\ status = "ok"
        /\ args = NoArgs

NextOrder == FindCycles \/ CallRatios \/ Integrate

SpecOrder == InitOrder /\ [][NextOrder]_vars

\* The identity and the exchanges of two neighbouring ids; every renaming is
\* a chain of these, and the profiles of InitOrder are closed under them.
Exchanges ==
    {p \in Perms : \A a \in Ids : p[a] # a => (p[p[a]] = a /\ Abs(p[a] - a) = 1)}

\* The same objects with Function i renamed p[i], every calls dict in
\* ascending callee order.
RelabelCalls(cs, p) ==
    LET ids == SetIter({p[cs[i].callee_id] : i \in 1..Len(cs)})
    IN  [j \in 1..Len(ids) |->
            LET i == CHOOSE k \in 1..Len(cs) : p[cs[k].callee_id] = ids[j]
            IN  [cs[i] EXCEPT !.callee_id = ids[j]]]

Relabel(fs, p) ==
    [n \in Ids |->
        LET i == CHOOSE k \in Ids : p[k] = n
        IN  [fs[i] EXCEPT !.id = n, !.calls = RelabelCalls(@, p)]]

RelabelCycles(objs, p) ==
    [c \in DOMAIN objs |->
        [objs[c] EXCEPT !.functions = {p[m] : m \in @}]]

\* The outevent value of an object, None when it has none.
OutOf(obj, outevent) ==
    IF Has(obj, outevent) THEN obj.events[outevent] ELSE None

\* Run r is run q with Function i renamed p[i]: the same error, and the
\* same outevent on every Function, Call, Cycle and on the Profile.
SameValues(q, r, p, outevent) ==
    /\ q.err = r.err
    /\ q.err = "ok" =>
        /\ q.events = r.events
        /\ \A c \in DOMAIN q.cycleObjs :
              OutOf(q.cycleObjs[c], outevent) = OutOf(r.cycleObjs[c], outevent)
        /\ \A i \in Ids :
              /\ OutOf(q.functions[i], outevent)
                    = OutOf(r.functions[p[i]], outevent)
              /\ \A k \in 1..Len(q.functions[i].calls) :
                    LET call == q.functions[i].calls[k]
                        other == r.functions[p[i]]
                    IN  OutOf(call, outevent) =
                          OutOf(other.calls[CallIndex(other, p[call.callee_id])],
                                outevent)

\* C16: integrate(TOTAL_TIME, TIME) gives the same inclusive value to every
\* Function, Call and Cycle and to the Profile whatever the order of the
\* functions dict, of the calls dicts, of the cycles' member sets and of
\* equal-rank heap items.
C16_IntegrateOrderIndependent ==
    [][(stage = "ratios" /\ stage' = "integrated") =>
        \A p \in Exchanges :
            SameValues(
               [functions |-> functions', cycleObjs |-> cycleObjs',
                events |-> events', err |-> status'],
               integrate(Relabel(functions, p), IdSeq, cycles,
                         RelabelCycles(cycleObjs, p), events, TOTAL_TIME, TIME),
               p, TOTAL_TIME)]_vars

C16_Witness ==
    /\ stage = "integrated" /\ status = "ok"
    /\ fkeys = <<3, 2, 1>>
    /\ Len(functions[3].calls) = 2
    /\ functions[3].calls[1].callee_id = 2
    /\ functions[3].calls[2].callee_id = 1
    /\ functions[1].cycle # NoCycle
    /\ functions[2].cycle = functions[1].cycle
    /\ functions[3].cycle = NoCycle
    /\ Has(functions[3], TOTAL_TIME)

\* The CALLS weights of the calls that satisfy counts(id, i), added up.
InboundSum(counts(_, _)) ==
    RSum([id \in 1..NumFuncs |->
        RSum([i \in 1..Len(functions[id].calls) |->
            IF Has(functions[id].calls[i], CALLS) /\ counts(id, i)
            THEN functions[id].calls[i].events[CALLS] ELSE RZero])])

\* The total weight of the non-self calls into Function b.
InboundWeight(b) ==
    LET counts(id, i) == ~IsSelf(id, i) /\ functions[id].calls[i].callee_id = b
    IN  InboundSum(counts)

\* The total weight of the calls that enter Cycle c from outside it.
CycleInboundWeight(c) ==
    LET counts(id, i) == Enters(id, i, c)
    IN  InboundSum(counts)

\* C17: call_ratios(CALLS) gives every non-self call A->B that has a weight
\* the ratio weight / total, clamped to [0, 1] and 1 on a zero total, where
\* the total is that of the calls entering B's Cycle from outside when B is
\* in a Cycle A is not in, and that of all non-self calls into B otherwise.
C17_RatioIsShareOfInbound ==
    [][(stage \in {"validated", "cycles"} /\ stage' = "ratios") =>
        /\ status' = "ok"
        /\ \A id \in DOMAIN functions :
             \A i \in 1..Len(functions[id].calls) :
                (~IsSelf(id, i) /\ Has(functions[id].calls[i], CALLS)) =>
                   functions'[id].calls[i].ratio =
                      SafeDivide(functions[id].calls[i].events[CALLS],
                         IF /\ CalleeOf(id, i).cycle # NoCycle
                            /\ CalleeOf(id, i).cycle # functions[id].cycle
                         THEN CycleInboundWeight(CalleeOf(id, i).cycle)
                         ELSE InboundWeight(functions[id].calls[i].callee_id))
      ]_vars

C17_Witness ==
    /\ stage = "ratios" /\ status = "ok"
    /\ \E a, b, c \in DOMAIN functions :
          /\ functions[c].cycle = NoCycle
          /\ functions[a].cycle # NoCycle
          /\ functions[b].cycle = functions[a].cycle
          /\ a # b
          /\ CallIndex(functions[c], a) # 0
          /\ CallIndex(functions[b], a) # 0
          /\ LET outer == functions[c].calls[CallIndex(functions[c], a)]
                 inner == functions[b].calls[CallIndex(functions[b], a)]
             IN  /\ WeightOf(outer) = ROne /\ outer.ratio = ROne
                 /\ WeightOf(inner) = ROne /\ inner.ratio = Rat(1, 2)

(***************************************************************************)
(* SpecMerge: as SpecMembers, with each Cycle.add_function call leaving    *)
(* its receiver and argument in args.                                      *)
(***************************************************************************)
CycleAddFunctionTo ==
    /\ status = "ok"
    /\ \E self \in 1..MaxCycleObjs, function \in DOMAIN functions :
          /\ self <= NewCycle(cycleObjs)
          /\ LET objs == [c \in DOMAIN cycleObjs \cup {self} |->
                            IF c \in DOMAIN cycleObjs THEN cycleObjs[c] ELSE Cycle]
                 w == add_function([functions |-> functions, cycleObjs |-> objs,
                                    err |-> "ok"], self, function)
             IN  /\ functions' = w.functions
                 /\ cycleObjs' = w.cycleObjs
                 /\ status' = w.err
          /\ args' = [self |-> self, function |-> function]
    /\ stage' = "added"
    /\ UNCHANGED <<fkeys, cycles, events, warned>>

NextMerge == CycleAddFunctionTo \/ FindCyclesMembers

SpecMerge == InitMembers /\ [][NextMerge]_vars

\* C18: K.add_function(f) called while f points to another Cycle K' returns
\* without an AssertionError, with every member of K' a member of K and
\* pointing to K.
C18_AddFunctionMerges ==
    [][(/\ stage' = "added"
        /\ functions[args'.function].cycle # NoCycle
        /\ functions[args'.function].cycle # args'.self)
       => /\ status' = "ok"
          /\ \A m \in cycleObjs[functions[args'.function].cycle].functions :
                /\ m \in cycleObjs'[args'.self].functions
                /\ functions'[m].cycle = args'.self]_vars

(***************************************************************************)
(* SpecRank: find_cycles, then _rank_cycle_function from an entry member   *)
(* of one of the Cycles found (a member called from outside the Cycle, as  *)
(* _integrate_cycle collects them), on validated graphs of NumRootFuncs    *)
(* Functions, self calls included.                                         *)
(***************************************************************************)
NumRankCalls == 5

RankGraphs ==
    {E \in SUBSET (RootIds \X RootIds) : Cardinality(E) <= NumRankCalls}

InitRank ==
    \E E \in RankGraphs :
        /\ functions = [id \in RootIds |->
              [Function(id) EXCEPT !.calls = RootCalls(id, E)]]
        /\ fkeys = [i \in RootIds |-> i]
        /\ cycles = <<>>
        /\ cycleObjs = [c \in {} |-> Cycle]
        /\ events = NoEvents
        /\ warned = {}
        /\ stage = "validated"
        /\ status = "ok"
        /\ args = NoArgs

RankCycleFunction ==
    /\ status = "ok" /\ stage = "cycles"
    /\ \E cycle \in Range(cycles) :
         \E function \in Range(entry_members(functions,
                                   AllCalls(functions, fkeys), cycle, <<>>)) :
            args' = [cycle |-> cycle, function |-> function,
                     ranks |-> rank_cycle_function(functions, cycle, function)]
    /\ stage' = "ranked"
    /\ UNCHANGED <<functions, fkeys, cycles, cycleObjs, events, warned, status>>

NextRank == FindCycles \/ RankCycleFunction

SpecRank == InitRank /\ [][NextRank]_vars

\* The members of C reached from S in at most k non-self calls inside C.
RECURSIVE HopsInside(_, _, _)
HopsInside(C, S, k) ==
    IF k = 0 THEN S
    ELSE LET P == HopsInside(C, S, k - 1)
         IN  P \cup {m \in C : \E a \in P : a # m /\ m \in CalleeIds(functions[a])}

\* C19: the ranks _rank_cycle_function fills from an entry member e of a
\* Cycle C that find_cycles produced are defined exactly on the members of
\* C, 0 on e, and on every other member the least number of non-self calls
\* inside C that lead from e to it.
C19_RankIsHopDistance ==
    stage = "ranked" =>
        LET C == cycleObjs[args.cycle].functions
        IN  /\ DOMAIN args.ranks = C
            /\ args.ranks[args.function] = 0
            /\ \A m \in C :
                  /\ m \in HopsInside(C, {args.function}, args.ranks[m])
                  /\ args.ranks[m] > 0 =>
                        m \notin HopsInside(C, {args.function},
                                            args.ranks[m] - 1)

C19_Witness ==
    /\ stage = "ranked"
    /\ Cardinality(DOMAIN args.ranks) = 3
    /\ \E a, b \in DOMAIN args.ranks :
          /\ args.ranks[a] = 1 /\ args.ranks[b] = 2
          /\ a \in CalleeIds(functions[a])
          /\ args.function \in CalleeIds(functions[b])

\* C20: on a profile whose calls all carry a non-negative CALLS weight and
\* whose Functions carry a non-negative TIME, integrate after validate,
\* find_cycles and call_ratios never fails one of the two assertions on an
\* entry member's partial (partial = max partial, partial = entry ratio *
\* the Cycle's inclusive value).
C20_PartialAssertionsHold ==
    [][(stage = "ratios" /\ stage' = "integrated" /\ ~LacksWeight) =>
            status' # "AssertionError"]_vars

\* C21: after validate, find_cycles, call_ratios and integrate, TOTAL_TIME
\* is defined on every Function, on every non-self Call (calls between
\* members of one Cycle included), on every Cycle of Profile.cycles and on
\* the Profile.
C21_OutDefinedEverywhere ==
    Integrated =>
        /\ TOTAL_TIME \in DOMAIN events
        /\ \A c \in Range(cycles) : Has(cycleObjs[c], TOTAL_TIME)
        /\ \A id \in DOMAIN functions :
              /\ Has(functions[id], TOTAL_TIME)
              /\ \A i \in 1..Len(functions[id].calls) :
                    ~IsSelf(id, i) => Has(functions[id].calls[i], TOTAL_TIME)

\* C26: after the pipeline on non-negative TIME values and CALLS weights,
\* every Function's TOTAL_TIME is at least its TIME, in a Cycle or not, and
\* whether or not the Cycle is called from outside.
C26_InclusiveAtLeastExclusive ==
    Integrated =>
        \A id \in DOMAIN functions :
            /\ Has(functions[id], TOTAL_TIME)
            /\ RLe(functions[id].events[TIME], functions[id].events[TOTAL_TIME])

\* The inevent value of an object, None when it has none.
InOf(obj) == IF TIME \in DOMAIN obj.events THEN obj.events[TIME] ELSE None

\* C29: integrate(TOTAL_TIME, TIME) leaves TIME as it was, defined or not,
\* on every Function, Call and Cycle and on the Profile, with or without
\* Cycles in the profile.
C29_IntegrateKeepsExclusive ==
    [][(stage = "ratios" /\ stage' = "integrated") =>
        /\ InOf([events |-> events']) = InOf([events |-> events])
        /\ \A c \in DOMAIN cycleObjs : InOf(cycleObjs'[c]) = InOf(cycleObjs[c])
        /\ \A id \in DOMAIN functions :
              /\ InOf(functions'[id]) = InOf(functions[id])
              /\ \A i \in 1..Len(functions[id].calls) :
                    InOf(functions'[id].calls[i]) = InOf(functions[id].calls[i])
      ]_vars

\* The profile without its self calls.
StripSelf(fs) ==
    [id \in DOMAIN fs |->
        [fs[id] EXCEPT !.calls = CallsFilter(@, DOMAIN fs \ {id})]]

\* C22: self calls do not interfere.  Each of find_cycles, call_ratios and
\* integrate gives, on a profile with self calls of any weight, what it
\* gives on the same profile without them (cycle membership, the other
\* calls' ratios, every TOTAL_TIME), and leaves every self call without
\* ratio and without TOTAL_TIME.
C22_SelfCallsDoNotInterfere ==
    [][/\ (stage = "validated" /\ stage' = "cycles") =>
            LET r == find_cycles(StripSelf(functions), fkeys, cycleObjs, cycles)
            IN  /\ r.functions = StripSelf(functions')
                /\ r.cycleObjs = cycleObjs'
                /\ r.cycles = cycles'
                /\ r.err = status'
       /\ (stage = "cycles" /\ stage' = "ratios") =>
            LET r == call_ratios(StripSelf(functions), fkeys, cycles, CALLS)
            IN  /\ r.functions = StripSelf(functions')
                /\ r.err = status'
       /\ (stage = "ratios" /\ stage' = "integrated") =>
            LET r == integrate(StripSelf(functions), fkeys, cycles, cycleObjs,
                               events, TOTAL_TIME, TIME)
            IN  /\ r.functions = StripSelf(functions')
                /\ r.cycleObjs = cycleObjs'
                /\ r.events = events'
                /\ r.err = status'
       /\ \A id \in DOMAIN functions' :
             \A i \in 1..Len(functions'[id].calls) :
                functions'[id].calls[i].callee_id = id =>
                   /\ functions'[id].calls[i].ratio = None
                   /\ ~Has(functions'[id].calls[i], TOTAL_TIME)]_vars

C22_Witness ==
    /\ Integrated
    /\ \E a, b \in DOMAIN functions :
          /\ a # b
          /\ CallIndex(functions[a], a) # 0
          /\ CallIndex(functions[a], b) # 0
          /\ CallIndex(functions[b], b) # 0
          /\ WeightOf(functions[a].calls[CallIndex(functions[a], a)])
                = Int2Rat(MaxWeight)
          /\ functions[a].calls[CallIndex(functions[a], b)].ratio = ROne
          /\ RLt(functions[a].events[TIME], functions[a].events[TOTAL_TIME])

\* The weight of Function id's i-th call: its own TOTAL_TIME_RATIO, else the
\* smaller of the caller's and the callee's when both have one, else none.
EdgeWeight(id, i) ==
    LET call == functions[id].calls[i]
    IN  IF Has(call, TOTAL_TIME_RATIO) THEN call.events[TOTAL_TIME_RATIO]
        ELSE IF Has(functions[id], TOTAL_TIME_RATIO)
                /\ Has(CalleeOf(id, i), TOTAL_TIME_RATIO)
        THEN RMin(functions[id].events[TOTAL_TIME_RATIO],
                  CalleeOf(id, i).events[TOTAL_TIME_RATIO])
        ELSE None

\* C23: after prune, a Call of a surviving Function survives iff its callee
\* survived and its weight (own TOTAL_TIME_RATIO, else the minimum of the
\* caller's and the callee's) is unset or not below edge_thres.
C23_PruneKeepsCallsAtOrAboveThreshold ==
    [][args' # NoArgs =>
        \A id \in DOMAIN functions' :
            \A i \in 1..Len(functions[id].calls) :
                functions[id].calls[i].callee_id \in CalleeIds(functions'[id])
                <=> /\ functions[id].calls[i].callee_id \in DOMAIN functions'
                    /\ \/ EdgeWeight(id, i) = None
                       \/ ~RLt(EdgeWeight(id, i), args'.edge_thres)]_vars

C23_Witness ==
    /\ stage = "pruned" /\ status = "ok"
    /\ args # NoArgs
    /\ args.edge_thres = ROne
    /\ \E a, b, c \in DOMAIN functions :
          /\ a # b /\ c # a /\ c # b
          /\ CalleeIds(functions[a]) = {b}
          /\ ~Has(functions[a].calls[1], TOTAL_TIME_RATIO)
          /\ functions[a].calls[1].weight = ROne
          /\ Has(functions[c], TOTAL_TIME_RATIO)
          /\ functions[c].events[TOTAL_TIME_RATIO] = RZero

(***************************************************************************)
(* SpecGprof: the gprof adapter.  GprofParser.parse builds the profile     *)
(* from the call graph entries (index, self time, children with their call *)
(* counts; no recursion, so no entry belongs to a gprof cycle), then runs   *)
(* validate,                                                               *)
(* ratio(TIME_RATIO, TIME), call_ratios(CALLS), integrate(TOTAL_TIME,      *)
(* TIME) and ratio(TOTAL_TIME_RATIO, TOTAL_TIME).                          *)
(***************************************************************************)
\* profile.add_function: a new key goes last, a known key keeps its place.
gprof_add_function(p, function) ==
    [p EXCEPT
        !.functions = [id \in DOMAIN @ \cup {function.id} |->
                          IF id = function.id THEN function ELSE @[id]],
        !.keys = IF function.id \in DOMAIN p.functions THEN @
                 ELSE Append(@, function.id)]

\* for child in entry.children: st = [p, function]
RECURSIVE gprof_children(_, _, _, _)
gprof_children(st, children, called, entries) ==
    IF children = <<>> THEN st
    ELSE LET child == Head(children)
             call == [Call(child) EXCEPT
                        !.events = SetEvent(NoEvents, CALLS, called[child])]
             missing == child \notin entries
         IN  gprof_children(
                [p |-> IF missing
                       THEN gprof_add_function(st.p, Function(child))
                       ELSE st.p,
                 function |->
                    [st.function EXCEPT
                        !.events = IF missing THEN SetEvent(@, TIME, RZero)
                                   ELSE @,
                        !.calls = Append(@, call)]],
                Tail(children), called, entries)

\* One entry: the Function, its calls, profile[TIME] += function[TIME]
gprof_entry(p, index, self, children, called, entries) ==
    LET st == gprof_children(
                 [p |-> p,
                  function |-> [Function(index) EXCEPT
                                   !.events = SetEvent(NoEvents, TIME, self)]],
                 children, called, entries)
        q == gprof_add_function(st.p, st.function)
    IN  [q EXCEPT !.events[TIME] = RAdd(@, st.function.events[TIME])]

\* for entry in self.functions.values()
RECURSIVE gprof_entries(_, _, _, _, _)
gprof_entries(p, todo, self, E, wt) ==
    IF todo = <<>> THEN p
    ELSE gprof_entries(
            gprof_entry(p, Head(todo), self[Head(todo)],
                        SetIter({c \in Ids : <<Head(todo), c>> \in E}),
                        [c \in Ids |-> IF <<Head(todo), c>> \in E
                                       THEN wt[<<Head(todo), c>>] ELSE None],
                        DOMAIN self),
            Tail(todo), self, E, wt)

\* The Profile as it is when parse reaches validate.
GprofParser_parse(self, E, wt) ==
    gprof_entries([functions |-> [id \in {} |-> Function(id)], keys |-> <<>>,
                   events |-> SetEvent(NoEvents, TIME, RZero)],
                  SetIter(DOMAIN self), self, E, wt)

InitGprof ==
    \E entries \in SUBSET Ids \ {{}} :
      \E self \in [entries -> Times] :
        \E E \in {G \in SUBSET (entries \X Ids) :
                     /\ Cardinality(G) <= NumPruneCalls
                     /\ \A S \in SUBSET Ids \ {{}} :
                           \E a \in S : \A c \in S : <<a, c>> \notin G} :
          \E wt \in [E -> PositiveWeights] :
            /\ functions = GprofParser_parse(self, E, wt).functions
            /\ fkeys = GprofParser_parse(self, E, wt).keys
            /\ cycles = <<>>
            /\ cycleObjs = [c \in {} |-> Cycle]
            /\ events = GprofParser_parse(self, E, wt).events
            /\ warned = {}
            /\ stage = "ingested"
            /\ status = "ok"
            /\ args = [self |-> self]

\* profile.ratio(outevent, inevent) as the step from stage `from` to `to`
GprofRatio(from, to, outevent, inevent) ==
    /\ status = "ok" /\ stage = from
    /\ LET r == Profile_ratio(functions, fkeys, events, outevent, inevent)
       IN  /\ functions' = r.functions
           /\ events' = r.events
           /\ status' = r.err
    /\ stage' = to
    /\ UNCHANGED <<fkeys, cycles, cycleObjs, warned, args>>

GprofCallRatios ==
    /\ status = "ok" /\ stage = "pct"
    /\ LET r == call_ratios(functions, fkeys, cycles, CALLS)
       IN  /\ functions' = r.functions
           /\ status' = r.err
    /\ stage' = "ratios"
    /\ UNCHANGED <<fkeys, cycles, cycleObjs, events, warned, args>>

\* profile.ratio(TIME_RATIO, TIME)
GprofTimeRatio == GprofRatio("validated", "pct", TIME_RATIO, TIME)

\* profile.ratio(TOTAL_TIME_RATIO, TOTAL_TIME)
GprofTotalTimeRatio ==
    GprofRatio("integrated", "done", TOTAL_TIME_RATIO, TOTAL_TIME)

NextGprof ==
    \/ Validate
    \/ GprofTimeRatio
    \/ GprofCallRatios
    \/ Integrate
    \/ GprofTotalTimeRatio

SpecGprof == InitGprof /\ [][NextGprof]_vars

\* C24: the profile GprofParser.parse hands to the derived-metric stages has
\* TIME on every registered Function, children without an entry of their
\* own included, each Function with an entry keeps that entry's self time,
\* and validate, ratio, call_ratios and integrate do not abort.
C24_GprofFunctionsHaveTime ==
    /\ status = "ok"
    /\ \A id \in DOMAIN functions :
          /\ Has(functions[id], TIME)
          /\ id \in DOMAIN args.self =>
                functions[id].events[TIME] = args.self[id]

(***************************************************************************)
(* SpecChained: find_cycles, call_ratios(CALLS) and integrate(TOTAL_TIME,  *)
(* TIME) on every validated graph of NumRootFuncs Functions with up to     *)
(* NumRankCalls calls (self calls, cycles, cycles that call each other),   *)
(* every Function with TIME 1 and every call with CALLS 1.                 *)
(***************************************************************************)
InitChained ==
    \E E \in RankGraphs :
        /\ functions = [id \in RootIds |->
              [Function(id) EXCEPT
                  !.events = SetEvent(NoEvents, TIME, ROne),
                  !.calls =
                     LET cs == RootCalls(id, E)
                     IN  [i \in 1..Len(cs) |->
                            [cs[i] EXCEPT
                               !.events = SetEvent(NoEvents, CALLS, ROne)]]]]
        /\ fkeys = [i \in RootIds |-> i]
        /\ cycles = <<>>
        /\ cycleObjs = [c \in {} |-> Cycle]
        /\ events = NoEvents
        /\ warned = {}
        /\ stage = "validated"
        /\ status = "ok"
        /\ args = NoArgs

SpecChained == InitChained /\ [][NextOrder]_vars

\* C25: after find_cycles and call_ratios on any validated call graph,
\* integrate terminates and no call is handed to _integrate_call a second
\* time: integrate returns without an AssertionError.
C25_IntegrateCallsOnce ==
    [][(stage = "ratios" /\ stage' = "integrated") => status' = "ok"]_vars

C25_Witness ==
    /\ Integrated
    /\ Len(cycles) = 2
    /\ \E a, b \in DOMAIN functions :
          /\ functions[a].cycle # NoCycle
          /\ functions[b].cycle # NoCycle
          /\ functions[a].cycle # functions[b].cycle
          /\ CallIndex(functions[a], b) # 0
          /\ Has(functions[a].calls[CallIndex(functions[a], b)], TOTAL_TIME)

\* The ratios of the calls that satisfy counts(id, i), added up.
RatioSum(counts(_, _)) ==
    RSum([id \in 1..NumFuncs |->
        RSum([i \in 1..Len(functions[id].calls) |->
            IF counts(id, i) THEN functions[id].calls[i].ratio ELSE RZero])])

\* The non-self calls into Function b.
CallsInto(b, id, i) == ~IsSelf(id, i) /\ functions[id].calls[i].callee_id = b

\* Every call of the profile has a CALLS weight above zero.
AllWeightsPositive ==
    \A id \in DOMAIN functions :
        \A i \in 1..Len(functions[id].calls) :
            /\ Has(functions[id].calls[i], CALLS)
            /\ RLt(RZero, functions[id].calls[i].events[CALLS])

\* C27: after call_ratios(CALLS) on a profile whose calls all have a positive
\* weight, the ratios of the non-self calls into a Function that is in no
\* Cycle and has such a call add up to 1, and so do the ratios of the calls
\* that enter a Cycle from outside it, when there is one.
C27_InboundRatiosSumToOne ==
    (stage = "ratios" /\ status = "ok" /\ AllWeightsPositive) =>
        /\ \A b \in DOMAIN functions :
              LET into(id, i) == CallsInto(b, id, i)
              IN  ( /\ functions[b].cycle = NoCycle
                    /\ \E id \in DOMAIN functions :
                          \E i \in 1..Len(functions[id].calls) : into(id, i) )
                     => RatioSum(into) = ROne
        /\ \A c \in Range(cycles) :
              LET enters(id, i) == Enters(id, i, c)
              IN  (\E id \in DOMAIN functions :
                      \E i \in 1..Len(functions[id].calls) : enters(id, i))
                     => RatioSum(enters) = ROne

C27_Witness ==
    /\ stage = "ratios" /\ status = "ok" /\ AllWeightsPositive
    /\ \E a, b, c \in DOMAIN functions :
          /\ a # b /\ functions[a].cycle # NoCycle
          /\ functions[b].cycle = functions[a].cycle
          /\ functions[c].cycle = NoCycle
          /\ CallIndex(functions[c], a) # 0
          /\ CallIndex(functions[b], a) # 0
          /\ functions[c].calls[CallIndex(functions[c], a)].ratio = ROne
          /\ functions[b].calls[CallIndex(functions[b], a)].ratio = Rat(1, 3)

\* Function b has no incoming call from another Function.
IsRoot(b) ==
    \A id \in DOMAIN functions :
        \A i \in 1..Len(functions[id].calls) : ~CallsInto(b, id, i)

\* C28: on a validated profile without cycles whose calls all have a positive
\* weight, after call_ratios and integrate the TOTAL_TIME of the Functions
\* that no other Function calls adds up to the TIME of all Functions, which
\* is Profile[TOTAL_TIME].
C28_ConservationOnDag ==
    (Integrated /\ cycles = <<>> /\ AllWeightsPositive) =>
        /\ RSum([i \in 1..Len(fkeys) |->
                   IF IsRoot(fkeys[i])
                   THEN functions[fkeys[i]].events[TOTAL_TIME] ELSE RZero])
              = RSum([i \in 1..Len(fkeys) |-> functions[fkeys[i]].events[TIME]])
        /\ events[TOTAL_TIME] =
              RSum([i \in 1..Len(fkeys) |-> functions[fkeys[i]].events[TIME]])

C28_Witness ==
    /\ Integrated /\ cycles = <<>> /\ AllWeightsPositive
    /\ \E a, b, c \in DOMAIN functions :
          /\ a # b
          /\ CallIndex(functions[a], c) # 0
          /\ CallIndex(functions[b], c) # 0
          /\ CallIndex(functions[c], c) # 0
          /\ functions[a].calls[CallIndex(functions[a], c)].ratio = Rat(1, 3)
          /\ functions[c].events[TOTAL_TIME] = Int2Rat(2)
          /\ functions[a].events[TOTAL_TIME] = Rat(5, 3)
          /\ functions[b].events[TOTAL_TIME] = Rat(7, 3)
          /\ events[TOTAL_TIME] = Int2Rat(4)

(***************************************************************************)
(* SpecReach: prune_root(roots) with the default depth of -1, from every   *)
(* non-empty set of roots, on the graphs of SpecRoot and on what an        *)
(* earlier prune_root left of them.                                        *)
(***************************************************************************)
PruneRootUnlimited ==
    /\ status = "ok"
    /\ \E roots \in SUBSET DOMAIN functions \ {{}} :
          /\ \E r \in prune_root(functions, fkeys, roots, -1) : Pruned(r)
          /\ args' = [roots |-> roots, depth |-> -1]

NextReach == PruneRootUnlimited

SpecReach == InitRoot /\ [][NextReach]_vars

\* The Functions some root reaches along outgoing calls, roots included.
ReachableFrom(roots) == WithinHops(functions, roots, Cardinality(DOMAIN functions))

\* C30: prune_root(roots) with depth -1 returns on every validated graph,
\* with cycles and self calls; it retains exactly the Functions reachable
\* from a root along outgoing calls, and on each of them exactly its calls
\* to retained Functions.
C30_PruneRootKeepsReachable ==
    [][(args' # NoArgs /\ stage' = "pruned") =>
        /\ status' = "ok"
        /\ DOMAIN functions' = ReachableFrom(args'.roots)
        /\ \A n \in DOMAIN functions' :
              /\ CalleeIds(functions'[n]) =
                    CalleeIds(functions[n]) \cap ReachableFrom(args'.roots)
              /\ \A i \in 1..Len(functions'[n].calls) :
                    functions'[n].calls[i] =
                       functions[n].calls[
                          CallIndex(functions[n],
                                    functions'[n].calls[i].callee_id)]
              /\ [functions'[n] EXCEPT !.calls = <<>>] =
                    [functions[n] EXCEPT !.calls = <<>>]
      ]_vars

C30_Witness ==
    /\ stage = "pruned" /\ status = "ok" /\ args # NoArgs
    /\ \E a, b \in DOMAIN functions :
          /\ a # b
          /\ args.roots = {a}
          /\ DOMAIN functions = {a, b}
          /\ CalleeIds(functions[a]) = {a, b}
          /\ CalleeIds(functions[b]) = {a}

====
